---- MODULE Spec2Model ----
(***************************************************************************)
(* A model of the web MIDI editor: the project data model, the undo/redo   *)
(* command engine (src/src/action.rs), the message handlers of             *)
(* Model::update (src/src/main.rs), the MIDI file encoder                  *)
(* (src/src/midi.rs), the pointer arithmetic (src/src/util.rs) and the     *)
(* playback scheduler (src/src/playback.rs).                               *)
(*                                                                         *)
(* Times (note offsets and lengths) are counted in sixteenths of a whole   *)
(* note: every offset and length the program stores is a result of snap    *)
(* (a multiple of MIN_INTERVAL = 1/16) or a sum or difference of such      *)
(* values, so the f64 values are exact and the integer n stands for n/16.  *)
(* Pointer coordinates are whole pixels.                                   *)
(***************************************************************************)
EXTENDS Integers, Sequences, FiniteSets, TLC

VARIABLES
    project,                  \* Model.project
    selected_track_index,     \* Model.selected_track_index : Option<usize>
    note_operation,           \* Model.note_operation : Option<NoteOperation>
    last_placed_note_length,  \* Model.last_placed_note_length (sixteenths)
    undo_stack,               \* Model.undo_stack : Vec<Action>
    redo_stack,               \* Model.redo_stack : Vec<Action>
    midi_access,              \* "requested" until the promise settles; Model.midi_access is Some iff "granted"
    pending,                  \* messages sent with ctx.link().send_message, not yet handled
    panicked,                 \* a Rust panic (index out of bounds) has aborted the program
    last,                     \* history: the message handled and the engine call made by the last step
    base,                     \* history: project and selection when the current run of performs began
    run,                      \* history: position in a run of n performs followed by undos
    called,                   \* history: the last call of a function of midi.rs, util.rs or playback.rs, its arguments and its result
    selected_output,          \* Model.selected_output : Option<MidiOutput>
    playing_notes,            \* Model.playing_notes : Vec<Timeout>, the timers play has created
    play_offset,              \* Model.play_offset (sixteenths)
    play_progress             \* the play-progress cursor that SetPlayProgress moves (sixteenths)

vars == <<project, selected_track_index, note_operation, last_placed_note_length,
          undo_stack, redo_stack, midi_access, pending, panicked, last, base, run,
          called, selected_output, playing_notes, play_offset, play_progress>>

\* the fields of the player, which only the playback handlers write
player_vars == <<selected_output, playing_notes, play_offset, play_progress>>

----------------------------------------------------------------------------
(* Bounds of the model *)

\* SpecEngine calls perform_action at most this many times in a behaviour
MaxPerforms == 3
\* SpecTracks calls perform_action at most this many times in a behaviour
MaxTrackPerforms == 4

----------------------------------------------------------------------------
(* Program constants *)

MIN_DIVISION == 16
\* MIN_INTERVAL = 1.0 / MIN_DIVISION, in sixteenths
MIN_INTERVAL == 1
WHOLE_NOTE_WIDTH == 320
NOTE_RECT_HEIGHT == 30
NOTE_EDGE_WIDTH == 6

----------------------------------------------------------------------------
(* Option<T> and Vec<T> *)

None == <<>>
Some(x) == <<x>>
IsSome(o) == o # <<>>
Unwrap(o) == o[1]

\* Vec indices are 0-based
VecGet(v, i) == v[i + 1]
VecPush(v, x) == Append(v, x)
VecRemove(v, i) == SubSeq(v, 1, i) \o SubSeq(v, i + 2, Len(v))
VecSet(v, i, x) == [v EXCEPT ![i + 1] = x]
VecLast(v) == v[Len(v)]
VecPop(v) == SubSeq(v, 1, Len(v) - 1)

----------------------------------------------------------------------------
(* The Action enum *)

RenameProject(name) == [type |-> "RenameProject", name |-> name]
SetBpm(bpm) == [type |-> "SetBpm", bpm |-> bpm]
SetTimeSignatureTop(top) == [type |-> "SetTimeSignatureTop", top |-> top]
SetTimeSignatureBottom(bottom) == [type |-> "SetTimeSignatureBottom", bottom |-> bottom]
CreateTrack(track) == [type |-> "CreateTrack", track |-> track]
DeleteTrack(index) == [type |-> "DeleteTrack", index |-> index]
RenameTrack(index, name) == [type |-> "RenameTrack", index |-> index, name |-> name]
SetTrackInstrument(index, instrument) ==
    [type |-> "SetTrackInstrument", index |-> index, instrument |-> instrument]
CreateNote(track_index, note) ==
    [type |-> "CreateNote", track_index |-> track_index, note |-> note]
DeleteNote(track_index, note_index) ==
    [type |-> "DeleteNote", track_index |-> track_index, note_index |-> note_index]
EditNote(track_index, note_index, offset, pitch, length) ==
    [type |-> "EditNote", track_index |-> track_index, note_index |-> note_index,
     offset |-> offset, pitch |-> pitch, length |-> length]

\* struct Track, struct Note
Track(name, notes, instrument) == [name |-> name, notes |-> notes, instrument |-> instrument]
Note(pitch, velocity, offset, length) ==
    [pitch |-> pitch, velocity |-> velocity, offset |-> offset, length |-> length]

----------------------------------------------------------------------------
(* The fields of struct Model the handlers read and write, as one record *)

Self ==
    [project |-> project,
     selected_track_index |-> selected_track_index,
     note_operation |-> note_operation,
     last_placed_note_length |-> last_placed_note_length,
     undo_stack |-> undo_stack,
     redo_stack |-> redo_stack,
     panicked |-> panicked]

\* the result of perform_action_impl: the model after the call and the inverse returned
Returned(m, inverse) == [m |-> m, inverse |-> Some(inverse)]
\* an indexing panic: the mutations made before it stay, nothing is returned
Panic(m) == [m |-> [m EXCEPT !.panicked = TRUE], inverse |-> None]

----------------------------------------------------------------------------
(* Model::perform_action_impl, one operator per match arm.  Each takes the *)
(* model m and the action and gives the model after the arm and the        *)
(* inverse it returns.  An index out of range panics at the indexing       *)
(* expression, after whatever the arm has already written.                 *)

ApplyRenameProject(m, action) ==
    Returned([m EXCEPT !.project.name = action.name],
             RenameProject(m.project.name))

\* faulty variant: reads the "old" bpm after writing the new one
ApplySetBpmStale(m, action) ==
    Returned([m EXCEPT !.project.bpm = action.bpm],
             SetBpm(action.bpm))

ApplySetBpm(m, action) ==
    Returned([m EXCEPT !.project.bpm = action.bpm],
             SetBpm(m.project.bpm))

ApplySetTimeSignatureTop(m, action) ==
    Returned([m EXCEPT !.project.time_signature.top = action.top],
             SetTimeSignatureTop(m.project.time_signature.top))

ApplySetTimeSignatureBottom(m, action) ==
    Returned([m EXCEPT !.project.time_signature.bottom = action.bottom],
             SetTimeSignatureBottom(m.project.time_signature.bottom))

\* faulty variant: every new track becomes the selected one
ApplyCreateTrackSelectsNew(m, action) ==
    LET old_len == Len(m.project.tracks)
        pushed == [m EXCEPT !.project.tracks = VecPush(@, action.track)]
    IN  Returned([pushed EXCEPT !.selected_track_index = Some(old_len)],
                 DeleteTrack(old_len))

ApplyCreateTrack(m, action) ==
    LET old_len == Len(m.project.tracks)
        pushed == [m EXCEPT !.project.tracks = VecPush(@, action.track)]
    IN  Returned(IF old_len = 0
                 THEN [pushed EXCEPT !.selected_track_index = Some(0)]
                 ELSE pushed,
                 DeleteTrack(old_len))

\* faulty variant: Vec::swap_remove instead of Vec::remove (the last track
\* takes the place of the removed one)
ApplyDeleteTrackSwapRemove(m, action) ==
    LET index == action.index
        tracks == m.project.tracks
        cleared == IF m.selected_track_index = Some(index)
                   THEN [m EXCEPT !.selected_track_index = None]
                   ELSE m
    IN  IF index < Len(tracks)
        THEN Returned([cleared EXCEPT !.project.tracks =
                           VecPop(VecSet(tracks, index, VecLast(tracks)))],
                      CreateTrack(VecGet(tracks, index)))
        ELSE Panic(cleared)

\* faulty variant: a selection behind the removed track follows its track
\* one place down
ApplyDeleteTrackShiftsSelection(m, action) ==
    LET index == action.index
        selected == m.selected_track_index
        cleared == IF selected = Some(index)
                   THEN [m EXCEPT !.selected_track_index = None]
                   ELSE m
        shifted == IF IsSome(selected) /\ Unwrap(selected) > index
                   THEN [cleared EXCEPT !.selected_track_index =
                                            Some(Unwrap(selected) - 1)]
                   ELSE cleared
    IN  IF index < Len(m.project.tracks)
        THEN Returned([shifted EXCEPT !.project.tracks = VecRemove(@, index)],
                      CreateTrack(VecGet(m.project.tracks, index)))
        ELSE Panic(cleared)

ApplyDeleteTrack(m, action) ==
    LET index == action.index
        cleared == IF m.selected_track_index = Some(index)
                   THEN [m EXCEPT !.selected_track_index = None]
                   ELSE m
    IN  IF index < Len(m.project.tracks)
        THEN Returned([cleared EXCEPT !.project.tracks = VecRemove(@, index)],
                      CreateTrack(VecGet(m.project.tracks, index)))
        ELSE Panic(cleared)

ApplyRenameTrack(m, action) ==
    LET index == action.index
    IN  IF index < Len(m.project.tracks)
        THEN Returned([m EXCEPT !.project.tracks[index + 1].name = action.name],
                      RenameTrack(index, VecGet(m.project.tracks, index).name))
        ELSE Panic(m)

ApplySetTrackInstrument(m, action) ==
    LET track_index == action.index
    IN  IF track_index < Len(m.project.tracks)
        THEN Returned([m EXCEPT !.project.tracks[track_index + 1].instrument =
                                    action.instrument],
                      SetTrackInstrument(track_index,
                                         VecGet(m.project.tracks, track_index).instrument))
        ELSE Panic(m)

\* faulty variant: Vec::insert(0, note) instead of Vec::push (the new note
\* goes in front of the others)
ApplyCreateNoteInsertsFirst(m, action) ==
    LET track_index == action.track_index
    IN  IF track_index < Len(m.project.tracks)
        THEN Returned([m EXCEPT !.project.tracks[track_index + 1].notes =
                                    <<action.note>> \o @],
                      DeleteNote(track_index, 0))
        ELSE Panic(m)

ApplyCreateNote(m, action) ==
    LET track_index == action.track_index
    IN  IF track_index < Len(m.project.tracks)
        THEN LET note_index == Len(VecGet(m.project.tracks, track_index).notes)
             IN  Returned([m EXCEPT !.project.tracks[track_index + 1].notes =
                                        VecPush(@, action.note)],
                          DeleteNote(track_index, note_index))
        ELSE Panic(m)

ApplyDeleteNote(m, action) ==
    LET track_index == action.track_index
        note_index == action.note_index
    IN  IF /\ track_index < Len(m.project.tracks)
           /\ note_index < Len(VecGet(m.project.tracks, track_index).notes)
        THEN Returned([m EXCEPT !.project.tracks[track_index + 1].notes =
                                    VecRemove(@, note_index)],
                      CreateNote(track_index,
                                 VecGet(VecGet(m.project.tracks, track_index).notes,
                                        note_index)))
        ELSE Panic(m)

\* faulty variant: the edited note is built anew with full velocity
ApplyEditNoteResetsVelocity(m, action) ==
    LET track_index == action.track_index
        note_index == action.note_index
    IN  IF /\ track_index < Len(m.project.tracks)
           /\ note_index < Len(VecGet(m.project.tracks, track_index).notes)
        THEN LET note == VecGet(VecGet(m.project.tracks, track_index).notes, note_index)
             IN  Returned([m EXCEPT !.project.tracks[track_index + 1].notes[note_index + 1] =
                                        Note(action.pitch, 127, action.offset,
                                             action.length)],
                          EditNote(track_index, note_index,
                                   note.offset, note.pitch, note.length))
        ELSE Panic(m)

ApplyEditNote(m, action) ==
    LET track_index == action.track_index
        note_index == action.note_index
    IN  IF /\ track_index < Len(m.project.tracks)
           /\ note_index < Len(VecGet(m.project.tracks, track_index).notes)
        THEN LET note == VecGet(VecGet(m.project.tracks, track_index).notes, note_index)
             IN  Returned([m EXCEPT !.project.tracks[track_index + 1].notes[note_index + 1] =
                                        [note EXCEPT !.offset = action.offset,
                                                     !.pitch = action.pitch,
                                                     !.length = action.length]],
                          EditNote(track_index, note_index,
                                   note.offset, note.pitch, note.length))
        ELSE Panic(m)

perform_action_impl(m, action) ==
    CASE action.type = "RenameProject" -> ApplyRenameProject(m, action)
      [] action.type = "SetBpm" -> ApplySetBpm(m, action)
      [] action.type = "SetTimeSignatureTop" -> ApplySetTimeSignatureTop(m, action)
      [] action.type = "SetTimeSignatureBottom" -> ApplySetTimeSignatureBottom(m, action)
      [] action.type = "CreateTrack" -> ApplyCreateTrack(m, action)
      [] action.type = "DeleteTrack" -> ApplyDeleteTrack(m, action)
      [] action.type = "RenameTrack" -> ApplyRenameTrack(m, action)
      [] action.type = "SetTrackInstrument" -> ApplySetTrackInstrument(m, action)
      [] action.type = "CreateNote" -> ApplyCreateNote(m, action)
      [] action.type = "DeleteNote" -> ApplyDeleteNote(m, action)
      [] action.type = "EditNote" -> ApplyEditNote(m, action)

\* faulty variant: pushes the action performed, not its inverse
perform_action_pushes_action(m, action) ==
    LET r == perform_action_impl(m, action)
    IN  IF r.m.panicked
        THEN r.m
        ELSE [r.m EXCEPT !.undo_stack = VecPush(@, action)]

\* faulty variant: a new action clears the redo history
perform_action_clears_redo(m, action) ==
    LET r == perform_action_impl(m, action)
    IN  IF r.m.panicked
        THEN r.m
        ELSE [r.m EXCEPT !.undo_stack = VecPush(@, Unwrap(r.inverse)),
                         !.redo_stack = <<>>]

\* Model::perform_action: apply, then push the inverse on the undo stack
perform_action(m, action) ==
    LET r == perform_action_impl(m, action)
    IN  IF r.m.panicked
        THEN r.m
        ELSE [r.m EXCEPT !.undo_stack = VecPush(@, Unwrap(r.inverse))]

\* faulty variant: reads the top of the undo stack without popping it
undo_last_peeks(m) ==
    IF m.undo_stack = <<>>
    THEN m
    ELSE LET r == perform_action_impl(m, VecLast(m.undo_stack))
         IN  IF r.m.panicked
             THEN r.m
             ELSE [r.m EXCEPT !.redo_stack = VecPush(@, Unwrap(r.inverse))]

\* Model::undo_last: pop, apply, push the inverse on the redo stack
undo_last(m) ==
    IF m.undo_stack = <<>>
    THEN m
    ELSE LET popped == [m EXCEPT !.undo_stack = VecPop(@)]
             r == perform_action_impl(popped, VecLast(m.undo_stack))
         IN  IF r.m.panicked
             THEN r.m
             ELSE [r.m EXCEPT !.redo_stack = VecPush(@, Unwrap(r.inverse))]

\* faulty variant: unwraps the popped entry, so an empty stack panics
redo_last_unwraps(m) ==
    IF m.redo_stack = <<>>
    THEN [m EXCEPT !.panicked = TRUE]
    ELSE LET popped == [m EXCEPT !.redo_stack = VecPop(@)]
             r == perform_action_impl(popped, VecLast(m.redo_stack))
         IN  IF r.m.panicked
             THEN r.m
             ELSE [r.m EXCEPT !.undo_stack = VecPush(@, Unwrap(r.inverse))]

\* Model::redo_last: pop, apply, push the inverse on the undo stack
redo_last(m) ==
    IF m.redo_stack = <<>>
    THEN m
    ELSE LET popped == [m EXCEPT !.redo_stack = VecPop(@)]
             r == perform_action_impl(popped, VecLast(m.redo_stack))
         IN  IF r.m.panicked
             THEN r.m
             ELSE [r.m EXCEPT !.undo_stack = VecPush(@, Unwrap(r.inverse))]

----------------------------------------------------------------------------
(* Model::create: the state after construction *)

\* faulty variant: the project is constructed with its default track in place
InitialProjectWithDefaultTrack ==
    [name |-> "Untitled",
     time_signature |-> [top |-> 4, bottom |-> 4],
     bpm |-> 120,
     tracks |-> <<Track("Track 1", <<>>, 0)>>]

InitialProject ==
    [name |-> "Untitled",
     time_signature |-> [top |-> 4, bottom |-> 4],
     bpm |-> 120,
     tracks |-> <<>>]

NoCall == [msg |-> "create", call |-> "none", action |-> None, inverse |-> None,
           prev |-> "none", mouse |-> None, dragged |-> None]

Idle == [phase |-> "idle", n |-> 0, len |-> 0, exact |-> TRUE]

Init ==
    /\ project = InitialProject
    /\ selected_track_index = None
    /\ note_operation = None
    /\ last_placed_note_length = 2
    /\ undo_stack = <<>>
    /\ redo_stack = <<>>
    /\ midi_access = "requested"
    /\ pending = <<>>
    /\ panicked = FALSE
    /\ last = NoCall
    /\ base = None
    /\ run = Idle
    /\ called = None
    /\ selected_output = None
    /\ playing_notes = {}
    /\ play_offset = 0
    /\ play_progress = 0

\* write the model record back to the variables
Becomes(m) ==
    /\ project' = m.project
    /\ selected_track_index' = m.selected_track_index
    /\ note_operation' = m.note_operation
    /\ last_placed_note_length' = m.last_placed_note_length
    /\ undo_stack' = m.undo_stack
    /\ redo_stack' = m.redo_stack
    /\ panicked' = m.panicked

\* project and selection: what the round-trip and symmetry laws compare
Core(m) == [project |-> m.project, selected_track_index |-> m.selected_track_index]

\* perform_action has been called this many times
Performs == Len(undo_stack) + Len(redo_stack)

----------------------------------------------------------------------------
(* The command engine driven directly: perform_action with any command     *)
(* whose indices are in range, undo_last, redo_last.                       *)

ProjectNames == {"Untitled", "Song"}
TrackNames == {"Track 1", "Track 2", "Track 3", "Lead"}
Bpms == {120, 90}
Tops == {4, 3}
Bottoms == {4, 8}
Instruments == {0, 40}
EngineNotes == {Note(60, 127, 0, 4), Note(64, 100, 4, 2)}
Edits == {[offset |-> 2, pitch |-> 62, length |-> 1],
          [offset |-> 0, pitch |-> 60, length |-> 4],
          [offset |-> 4, pitch |-> 64, length |-> 0]}

TrackIndices(m) == 0 .. (Len(m.project.tracks) - 1)
NoteIndices(m, t) == 0 .. (Len(VecGet(m.project.tracks, t).notes) - 1)

\* every command of the catalogue whose indices are in range in m
Catalogue(m) ==
    {RenameProject(n) : n \in ProjectNames}
    \cup {SetBpm(b) : b \in Bpms}
    \cup {SetTimeSignatureTop(t) : t \in Tops}
    \cup {SetTimeSignatureBottom(b) : b \in Bottoms}
    \cup {CreateTrack(Track(n, <<>>, 0)) : n \in TrackNames}
    \cup {DeleteTrack(i) : i \in TrackIndices(m)}
    \cup {RenameTrack(i, n) : i \in TrackIndices(m), n \in TrackNames}
    \cup {SetTrackInstrument(i, x) : i \in TrackIndices(m), x \in Instruments}
    \cup {CreateNote(i, x) : i \in TrackIndices(m), x \in EngineNotes}
    \cup UNION {{DeleteNote(i, j) : j \in NoteIndices(m, i)} : i \in TrackIndices(m)}
    \cup UNION {{EditNote(i, j, e.offset, e.pitch, e.length) :
                    j \in NoteIndices(m, i), e \in Edits} : i \in TrackIndices(m)}

\* format!("Track {}", len + 1)
TrackName(len) == "Track " \o ToString(len + 1)

\* the commands the engine specification performs: one new value for each
\* field, one new track, every index in range
EngineCommands(m) ==
    {RenameProject("Song"), SetBpm(90), SetTimeSignatureTop(3), SetTimeSignatureBottom(8),
     CreateTrack(Track(TrackName(Len(m.project.tracks)), <<>>, 0))}
    \cup {DeleteTrack(i) : i \in TrackIndices(m)}
    \cup {RenameTrack(i, "Lead") : i \in TrackIndices(m)}
    \cup {SetTrackInstrument(i, 40) : i \in TrackIndices(m)}
    \cup {CreateNote(i, x) : i \in TrackIndices(m), x \in EngineNotes}
    \cup UNION {{DeleteNote(i, j) : j \in NoteIndices(m, i)} : i \in TrackIndices(m)}
    \cup UNION {{EditNote(i, j, 2, 62, 1) : j \in NoteIndices(m, i)} :
                   i \in TrackIndices(m)}

\* applying action in m and then the inverse it returned gives back m exactly
\* (the condition under which a command of a run can be undone exactly)
ExactlyInvertible(m, action) ==
    CASE action.type = "DeleteTrack" ->
             /\ action.index = Len(m.project.tracks) - 1
             /\ IF Len(m.project.tracks) = 1
                THEN m.selected_track_index = Some(0)
                ELSE m.selected_track_index # Some(action.index)
      [] action.type = "DeleteNote" ->
             action.note_index =
                 Len(VecGet(m.project.tracks, action.track_index).notes) - 1
      [] OTHER -> TRUE

\* history of an undo_last or redo_last call: the entry popped from stack and
\* the inverse its application returns
EngineCall(msg, call, stack) ==
    IF stack = <<>>
    THEN [msg |-> msg, call |-> call, action |-> None, inverse |-> None,
          prev |-> last.call, mouse |-> None, dragged |-> None]
    ELSE [msg |-> msg, call |-> call, action |-> Some(VecLast(stack)),
          inverse |-> perform_action_impl(Self, VecLast(stack)).inverse,
          prev |-> last.call, mouse |-> None, dragged |-> None]

EnginePerform(action, max) ==
    /\ ~panicked
    /\ Performs < max
    /\ Becomes(perform_action(Self, action))
    /\ last' = [msg |-> "", call |-> "perform_action", action |-> Some(action),
                inverse |-> perform_action_impl(Self, action).inverse,
                prev |-> last.call, mouse |-> None, dragged |-> None]
    /\ IF run.phase = "perform"
       THEN /\ base' = base
            /\ run' = [run EXCEPT !.n = @ + 1, !.len = @ + 1,
                                  !.exact = @ /\ ExactlyInvertible(Self, action)]
       ELSE /\ base' = Some(Core(Self))
            /\ run' = [phase |-> "perform", n |-> 1, len |-> 1,
                       exact |-> ExactlyInvertible(Self, action)]
    /\ UNCHANGED <<midi_access, pending, called, player_vars>>

EngineUndo ==
    /\ ~panicked
    /\ Becomes(undo_last(Self))
    /\ last' = EngineCall("", "undo_last", undo_stack)
    /\ IF run.phase \in {"perform", "undo"} /\ run.n >= 1 /\ undo_stack # <<>>
       THEN /\ base' = base
            /\ run' = [run EXCEPT !.phase = "undo", !.n = @ - 1]
       ELSE /\ base' = None
            /\ run' = Idle
    /\ UNCHANGED <<midi_access, pending, called, player_vars>>

EngineRedo ==
    /\ ~panicked
    /\ Becomes(redo_last(Self))
    /\ last' = EngineCall("", "redo_last", redo_stack)
    /\ base' = None
    /\ run' = Idle
    /\ UNCHANGED <<midi_access, pending, called, player_vars>>

EngineNext ==
    \/ \E action \in EngineCommands(Self) : EnginePerform(action, MaxPerforms)
    \/ EngineUndo
    \/ EngineRedo

SpecEngine == Init /\ [][EngineNext]_vars

\* the engine driven with the commands on the track list only
TrackCommands(m) ==
    {CreateTrack(Track(TrackName(Len(m.project.tracks)), <<>>, 0))}
    \cup {DeleteTrack(i) : i \in TrackIndices(m)}

TracksNext ==
    \/ \E action \in TrackCommands(Self) : EnginePerform(action, MaxTrackPerforms)
    \/ EngineUndo
    \/ EngineRedo

SpecTracks == Init /\ [][TracksNext]_vars

\* SpecNotes calls perform_action at most this many times in a behaviour
MaxNotePerforms == 4

\* the commands on notes: a new track, either note appended to any track, any
\* note deleted
NoteCommands(m) ==
    {CreateTrack(Track(TrackName(Len(m.project.tracks)), <<>>, 0))}
    \cup {CreateNote(i, x) : i \in TrackIndices(m), x \in EngineNotes}
    \cup UNION {{DeleteNote(i, j) : j \in NoteIndices(m, i)} : i \in TrackIndices(m)}

NotesNext ==
    \/ \E action \in NoteCommands(Self) : EnginePerform(action, MaxNotePerforms)
    \/ EngineUndo
    \/ EngineRedo

SpecNotes == Init /\ [][NotesNext]_vars

----------------------------------------------------------------------------
(* Geometry: src/src/util.rs and impl Note, impl Track in src/src/project.rs. *)
(* Lengths on screen are pixels; a sixteenth is DIVISION_WIDTH pixels wide.   *)

\* WHOLE_NOTE_WIDTH / MIN_DIVISION
DIVISION_WIDTH == WHOLE_NOTE_WIDTH \div MIN_DIVISION

\* Rust's % on f64: the remainder has the sign of the dividend
Rem(a, b) == IF a >= 0 THEN a % b ELSE -((-a) % b)

\* snap, on values scaled by WHOLE_NOTE_WIDTH (x and precision in pixels)
snap(x, precision) ==
    LET f_mod == Rem(x, precision)
    IN  IF 2 * f_mod >= precision
        THEN x - f_mod + precision
        ELSE x - f_mod

\* mouse_x_to_interval: snap(mouse_x / WHOLE_NOTE_WIDTH, MIN_INTERVAL), in sixteenths
mouse_x_to_interval(mouse_x) == snap(mouse_x, DIVISION_WIDTH) \div DIVISION_WIDTH

Clamp(x, lo, hi) == IF x < lo THEN lo ELSE IF x > hi THEN hi ELSE x

\* f64::round of the fraction num / den (den > 0): halves round away from zero
Round(num, den) ==
    IF num >= 0
    THEN (2 * num + den) \div (2 * den)
    ELSE -((2 * (-num) + den) \div (2 * den))

\* f64::ceil of the fraction num / den (den > 0)
Ceil(num, den) == -((-num) \div den)

\* the pitch of a note created at mouse_y:
\* (127.0 - mouse_y / NOTE_RECT_HEIGHT).clamp(0.0, 127.0).ceil() as u8
CreatedPitch(mouse_y) ==
    LET num == 127 * NOTE_RECT_HEIGHT - mouse_y
    IN  IF num < 0 THEN 0
        ELSE IF num > 127 * NOTE_RECT_HEIGHT THEN 127
        ELSE Ceil(num, NOTE_RECT_HEIGHT)

\* faulty variant: the pitch is rounded to the nearest row boundary
mouse_y_to_pitch_rounds(mouse_y) ==
    Clamp(Round(127 * NOTE_RECT_HEIGHT - mouse_y, NOTE_RECT_HEIGHT), 0, 127)

\* mouse_y_to_pitch:
\* (127.0 - mouse_y / NOTE_RECT_HEIGHT).clamp(0.0, 127.0).ceil() as u8
mouse_y_to_pitch(mouse_y) ==
    LET num == 127 * NOTE_RECT_HEIGHT - mouse_y
    IN  IF num < 0 THEN 0
        ELSE IF num > 127 * NOTE_RECT_HEIGHT THEN 127
        ELSE Ceil(num, NOTE_RECT_HEIGHT)

\* faulty variant: the half row is not subtracted before rounding
DraggedPitchNearestRow(mouse_y) ==
    127 - Clamp(Round(mouse_y, NOTE_RECT_HEIGHT), 0, 127)

\* faulty variant: the row is not clamped to 0 .. 127
DraggedPitchUnclamped(mouse_y) ==
    127 - Round(2 * mouse_y - NOTE_RECT_HEIGHT, 2 * NOTE_RECT_HEIGHT)

\* the pitch of a note dragged to mouse_y:
\* 127 - (mouse_y / NOTE_RECT_HEIGHT - 0.5).round().clamp(0.0, 127.0) as u8
DraggedPitch(mouse_y) ==
    127 - Clamp(Round(2 * mouse_y - NOTE_RECT_HEIGHT, 2 * NOTE_RECT_HEIGHT), 0, 127)

screen_x(note) == note.offset * DIVISION_WIDTH
screen_y(note) == (127 - note.pitch) * NOTE_RECT_HEIGHT
screen_width(note) == note.length * DIVISION_WIDTH
screen_height(note) == NOTE_RECT_HEIGHT
right_edge(note) == screen_x(note) + screen_width(note)

\* epsilon = 1e-3 of Track::get_note_at_position, in thousandths of a pixel
EPSILON == 1

\* Track::get_note_at_position: the last note whose rectangle holds (x, y)
get_note_at_position(track, x, y) ==
    LET hits == {index \in 0 .. (Len(track.notes) - 1) :
                    LET note == VecGet(track.notes, index)
                        dx == 1000 * (x - screen_x(note))
                        dy == 1000 * (y - screen_y(note))
                    IN  /\ dx >= -EPSILON
                        /\ dy >= -EPSILON
                        /\ dx < 1000 * screen_width(note) + EPSILON
                        /\ dy < 1000 * screen_height(note) + EPSILON}
    IN  IF hits = {} THEN None
        ELSE Some(CHOOSE index \in hits : \A other \in hits : other <= index)

----------------------------------------------------------------------------
(* NoteOperation and NoteOperationType *)

DragLeftEdge(offset, length) == [tag |-> "DragLeftEdge", offset |-> offset, length |-> length]
DragRightEdge(length) == [tag |-> "DragRightEdge", length |-> length]
Move(grab_offset, offset, pitch) ==
    [tag |-> "Move", grab_offset |-> grab_offset, offset |-> offset, pitch |-> pitch]
CreateAndMove == [tag |-> "CreateAndMove"]
NoteOperation(note_index, type_) == [note_index |-> note_index, type_ |-> type_]

----------------------------------------------------------------------------
(* Model::update, one operator per message.  Each gives the model after    *)
(* the handler, the messages the handler sent to itself, and the engine    *)
(* call it made (kept in the history variable last).                       *)

\* update returned true: the component is rendered again
Handled(m) ==
    [m |-> m, sent |-> <<>>, call |-> "none", action |-> None, inverse |-> None,
     render |-> TRUE, dragged |-> None]
\* update returned false
NoRender(m) == [Handled(m) EXCEPT !.render = FALSE]
HandlerPanic(m) == NoRender([m EXCEPT !.panicked = TRUE])
Performed(m, action) ==
    [m |-> perform_action(m, action), sent |-> <<>>, call |-> "perform_action",
     action |-> Some(action), inverse |-> perform_action_impl(m, action).inverse,
     render |-> TRUE, dragged |-> None]
Sending(r, msgs) == [r EXCEPT !.sent = IF r.m.panicked THEN <<>> ELSE msgs]

UpdateSelectTrack(m, index) ==
    Handled([m EXCEPT !.selected_track_index = Some(index)])

UpdateDeselectTrack(m) ==
    Handled([m EXCEPT !.selected_track_index = None])

UpdateCreateTrack(m) ==
    LET len == Len(m.project.tracks)
    IN  Performed(m, CreateTrack(Track(TrackName(len), <<>>, 0)))

\* faulty variant: the follow-up message selects the deleted index again
UpdateDeleteSelectedTrackKeepsIndex(m) ==
    IF IsSome(m.selected_track_index)
    THEN LET index == Unwrap(m.selected_track_index)
             r == Performed(m, DeleteTrack(index))
         IN  IF Len(r.m.project.tracks) >= 1
             THEN Sending(r, <<[msg |-> "SelectTrack", index |-> index]>>)
             ELSE Sending(r, <<[msg |-> "DeselectTrack"]>>)
    ELSE NoRender(m)

UpdateDeleteSelectedTrack(m) ==
    IF IsSome(m.selected_track_index)
    THEN LET index == Unwrap(m.selected_track_index)
             r == Performed(m, DeleteTrack(index))
         IN  IF Len(r.m.project.tracks) >= 1
             THEN Sending(r, <<[msg |-> "SelectTrack",
                                index |-> IF index = 0 THEN 0 ELSE index - 1]>>)
             ELSE Sending(r, <<[msg |-> "DeselectTrack"]>>)
    ELSE NoRender(m)

UpdateRenameSelectedTrack(m, name) ==
    IF IsSome(m.selected_track_index)
    THEN Performed(m, RenameTrack(Unwrap(m.selected_track_index), name))
    ELSE Handled(m)

UpdateSetSelectedTrackInstrument(m, instrument) ==
    IF IsSome(m.selected_track_index)
    THEN Performed(m, SetTrackInstrument(Unwrap(m.selected_track_index), instrument))
    ELSE Handled(m)

UpdateSetProjectName(m, name) == Performed(m, RenameProject(name))
UpdateSetBpm(m, bpm) == Performed(m, SetBpm(bpm))
UpdateSetTimeSignatureTop(m, top) == Performed(m, SetTimeSignatureTop(top))
UpdateSetTimeSignatureBottom(m, bottom) == Performed(m, SetTimeSignatureBottom(bottom))

UpdateUndo(m) ==
    [m |-> undo_last(m), sent |-> <<>>, call |-> "undo_last",
     action |-> IF m.undo_stack = <<>> THEN None ELSE Some(VecLast(m.undo_stack)),
     inverse |-> IF m.undo_stack = <<>> THEN None
                 ELSE perform_action_impl(m, VecLast(m.undo_stack)).inverse,
     render |-> TRUE, dragged |-> None]

UpdateRedo(m) ==
    [m |-> redo_last(m), sent |-> <<>>, call |-> "redo_last",
     action |-> IF m.redo_stack = <<>> THEN None ELSE Some(VecLast(m.redo_stack)),
     inverse |-> IF m.redo_stack = <<>> THEN None
                 ELSE perform_action_impl(m, VecLast(m.redo_stack)).inverse,
     render |-> TRUE, dragged |-> None]

\* the note a drag handler works on: tracks[track_index].notes[note_index]
NoteExists(m, track_index, note_index) ==
    /\ track_index < Len(m.project.tracks)
    /\ note_index < Len(VecGet(m.project.tracks, track_index).notes)
NoteAt(m, track_index, note_index) ==
    VecGet(VecGet(m.project.tracks, track_index).notes, note_index)
WithNote(m, track_index, note_index, note) ==
    [m EXCEPT !.project.tracks[track_index + 1].notes[note_index + 1] = note]

\* the NoteOperationType chosen by the place where an existing note is grabbed
GrabType(note, mouse_x) ==
    IF mouse_x <= screen_x(note) + NOTE_EDGE_WIDTH
    THEN DragLeftEdge(note.offset, note.length)
    ELSE IF mouse_x >= right_edge(note) - NOTE_EDGE_WIDTH
    THEN DragRightEdge(note.length)
    ELSE Move(mouse_x_to_interval(mouse_x) - note.offset, note.offset, note.pitch)

UpdatePianoRollMouseDown(m, mouse_x, mouse_y, buttons) ==
    IF IsSome(m.note_operation) THEN NoRender(m)
    ELSE IF ~IsSome(m.selected_track_index) THEN NoRender(m)
    ELSE LET track_index == Unwrap(m.selected_track_index)
         IN
         IF ~(track_index < Len(m.project.tracks)) THEN HandlerPanic(m)
         ELSE LET track == VecGet(m.project.tracks, track_index)
                  existing_note_index == get_note_at_position(track, mouse_x, mouse_y)
              IN
              CASE buttons = 1 ->
                     IF IsSome(existing_note_index)
                     THEN LET note_index == Unwrap(existing_note_index)
                              note == VecGet(track.notes, note_index)
                          IN  Handled([m EXCEPT !.note_operation =
                                  Some(NoteOperation(note_index, GrabType(note, mouse_x)))])
                     ELSE LET len == Len(track.notes)
                              pitch == CreatedPitch(mouse_y)
                              offset == snap(mouse_x, DIVISION_WIDTH) \div DIVISION_WIDTH
                          IN  Handled([m EXCEPT
                                  !.project.tracks[track_index + 1].notes =
                                      VecPush(@, Note(pitch, 127, offset,
                                                      m.last_placed_note_length)),
                                  !.note_operation =
                                      Some(NoteOperation(len, CreateAndMove))])
                [] buttons = 2 ->
                     IF IsSome(existing_note_index)
                     THEN Performed(m, DeleteNote(track_index, Unwrap(existing_note_index)))
                     ELSE NoRender(m)
                [] OTHER -> NoRender(m)

\* faulty variant: the note is not put back to its values before the drag, so
\* the inverse that perform_action stores carries the values after it
UpdatePianoRollMouseUpKeepsDragged(m) ==
    IF ~IsSome(m.note_operation) \/ ~IsSome(m.selected_track_index)
    THEN Handled([m EXCEPT !.note_operation = None])
    ELSE LET operation == Unwrap(m.note_operation)
             selected == Unwrap(m.selected_track_index)
             note_index == operation.note_index
             type_ == operation.type_
         IN
         IF ~NoteExists(m, selected, note_index) THEN HandlerPanic(m)
         ELSE LET note == NoteAt(m, selected, note_index)
                  new_offset == note.offset
                  new_pitch == note.pitch
                  new_length == note.length
                  restored == note
                  r == IF type_.tag = "CreateAndMove"
                       THEN Performed(
                                [m EXCEPT !.project.tracks[selected + 1].notes =
                                              VecRemove(@, note_index)],
                                CreateNote(selected,
                                           [note EXCEPT !.offset = new_offset,
                                                        !.pitch = new_pitch]))
                       ELSE Performed(
                                WithNote(m, selected, note_index, restored),
                                EditNote(selected, note_index,
                                         new_offset, new_pitch, new_length))
              IN  IF r.m.panicked THEN r
                  ELSE [r EXCEPT !.m.note_operation = None]

UpdatePianoRollMouseUp(m) ==
    IF ~IsSome(m.note_operation) \/ ~IsSome(m.selected_track_index)
    THEN Handled([m EXCEPT !.note_operation = None])
    ELSE LET operation == Unwrap(m.note_operation)
             selected == Unwrap(m.selected_track_index)
             note_index == operation.note_index
             type_ == operation.type_
         IN
         IF ~NoteExists(m, selected, note_index) THEN HandlerPanic(m)
         ELSE LET note == NoteAt(m, selected, note_index)
                  new_offset == note.offset
                  new_pitch == note.pitch
                  new_length == note.length
                  restored ==
                      CASE type_.tag = "DragLeftEdge" ->
                             [note EXCEPT !.offset = type_.offset, !.length = type_.length]
                        [] type_.tag = "DragRightEdge" ->
                             [note EXCEPT !.length = type_.length]
                        [] type_.tag = "Move" ->
                             [note EXCEPT !.offset = type_.offset, !.pitch = type_.pitch]
                        [] type_.tag = "CreateAndMove" -> note
                  r == IF type_.tag = "CreateAndMove"
                       THEN Performed(
                                [m EXCEPT !.project.tracks[selected + 1].notes =
                                              VecRemove(@, note_index)],
                                CreateNote(selected,
                                           [note EXCEPT !.offset = new_offset,
                                                        !.pitch = new_pitch]))
                       ELSE Performed(
                                WithNote(m, selected, note_index, restored),
                                EditNote(selected, note_index,
                                         new_offset, new_pitch, new_length))
              IN  IF r.m.panicked THEN r
                  ELSE [r EXCEPT !.m.note_operation = None]

\* the note after a mouse move with the left button down, before the length floor
DraggedNote(note, type_, offset, pitch) ==
    CASE type_.tag = "Move" ->
           [note EXCEPT !.offset = offset - type_.grab_offset, !.pitch = pitch]
      [] type_.tag = "CreateAndMove" ->
           [note EXCEPT !.offset = offset, !.pitch = pitch]
      [] type_.tag = "DragLeftEdge" ->
           LET clamped == IF offset < note.offset + note.length - MIN_INTERVAL
                          THEN offset
                          ELSE note.offset + note.length - MIN_INTERVAL
           IN  [note EXCEPT !.length = note.length + (note.offset - clamped),
                            !.offset = clamped]
      [] type_.tag = "DragRightEdge" ->
           LET clamped == IF offset > note.offset - note.length + MIN_INTERVAL
                          THEN offset
                          ELSE note.offset - note.length + MIN_INTERVAL
           IN  [note EXCEPT !.length = clamped - note.offset + MIN_INTERVAL]

\* faulty variant: the length floor is left out
LengthFloorMissing(note) == note

\* if note.length < 1e-4 { note.length = MIN_INTERVAL }   (lengths in sixteenths)
LengthFloor(note) ==
    IF 10000 * note.length < MIN_DIVISION
    THEN [note EXCEPT !.length = MIN_INTERVAL]
    ELSE note

UpdatePianoRollMouseMove(m, mouse_x, mouse_y, buttons) ==
    CASE buttons = 1 ->
           IF ~IsSome(m.note_operation) \/ ~IsSome(m.selected_track_index)
           THEN NoRender(m)
           ELSE LET operation == Unwrap(m.note_operation)
                    index == Unwrap(m.selected_track_index)
                IN
                IF ~NoteExists(m, index, operation.note_index) THEN HandlerPanic(m)
                ELSE LET note == NoteAt(m, index, operation.note_index)
                         offset == mouse_x_to_interval(mouse_x)
                         pitch == DraggedPitch(mouse_y)
                         dragged == DraggedNote(note, operation.type_, offset, pitch)
                         floored == LengthFloor(dragged)
                     IN  [Handled([WithNote(m, index, operation.note_index, floored)
                                      EXCEPT !.last_placed_note_length = floored.length])
                             EXCEPT !.dragged = Some(dragged)]
      [] buttons = 2 ->
           IF ~IsSome(m.selected_track_index) THEN NoRender(m)
           ELSE LET selected == Unwrap(m.selected_track_index)
                IN
                IF ~(selected < Len(m.project.tracks)) THEN HandlerPanic(m)
                ELSE LET note_index ==
                             get_note_at_position(
                                 VecGet(m.project.tracks, selected),
                                 mouse_x, mouse_y)
                     IN  IF IsSome(note_index)
                         THEN Performed(m, DeleteNote(selected,
                                                      Unwrap(note_index)))
                         ELSE NoRender(m)
      [] OTHER ->
           \* the cursor is restyled: act_on_selected_track indexes the tracks
           IF /\ ~IsSome(m.note_operation)
              /\ IsSome(m.selected_track_index)
              /\ ~(Unwrap(m.selected_track_index) < Len(m.project.tracks))
           THEN HandlerPanic(m)
           ELSE NoRender(m)

\* Model::view after an update that asked for a render: view_notes and
\* view_track_info call act_on_selected_track, which indexes
\* project.tracks[selected_track_index]
view(m, access) ==
    IF /\ access = "granted"
       /\ IsSome(m.selected_track_index)
       /\ ~(Unwrap(m.selected_track_index) < Len(m.project.tracks))
    THEN [m EXCEPT !.panicked = TRUE]
    ELSE m

----------------------------------------------------------------------------
(* The component as the browser drives it: one action per message of        *)
(* Model::update.  A message a handler sends to itself is queued in         *)
(* pending and handled before any other event; the component is rendered    *)
(* when the queue is empty and the last update returned true.               *)

\* SpecPanels calls perform_action at most this many times in a behaviour
MaxUiPerforms == 3
\* SpecPianoRoll calls perform_action at most this many times in a behaviour
MaxRollPerforms == 2
\* a track holds at most this many notes
MaxUiNotes == 1
\* no note ends later than this many sixteenths
MaxNoteEnd == 4
\* no note starts earlier than this many sixteenths before the origin
MaxShift == 1

\* pointer positions inside the piano roll, in pixels.  A note created at
\* x = 0 spans 0 .. 40 and x = 25 is in its middle; one created at x = 25
\* spans 20 .. 60, x = 25 is on its left edge and x = 55 on its right edge.
MouseXs == {0, 25, 55}
MouseYs == {15}

WithinUiBounds(m, max) ==
    /\ Len(m.undo_stack) + Len(m.redo_stack) <= max
    /\ \A t \in TrackIndices(m) :
           LET notes == VecGet(m.project.tracks, t).notes
           IN  /\ Len(notes) <= MaxUiNotes
               /\ \A n \in 1 .. Len(notes) :
                      /\ notes[n].offset >= -MaxShift
                      /\ notes[n].offset + notes[n].length <= MaxNoteEnd

\* the state after update(msg) gave r, with queue the messages still waiting.
\* An update that returned false without panicking changed nothing; last
\* keeps the latest update that returned true or panicked.
Dispatch(msg, r, access, mouse, queue, max) ==
    /\ WithinUiBounds(r.m, max)
    /\ pending' = queue \o r.sent
    /\ midi_access' = access
    /\ Becomes(IF queue \o r.sent = <<>> /\ r.render /\ ~r.m.panicked
               THEN view(r.m, access)
               ELSE r.m)
    /\ last' = IF r.render \/ r.m.panicked
               THEN [msg |-> msg, call |-> r.call, action |-> r.action,
                     inverse |-> r.inverse, prev |-> "none", mouse |-> mouse,
                     dragged |-> r.dragged]
               ELSE last
    /\ UNCHANGED <<base, run, called, player_vars>>

\* the page is shown and idle: the next message comes from the user
FromUser == ~panicked /\ midi_access = "granted" /\ pending = <<>>
\* the next message is one a handler sent
FromQueue(msg) == ~panicked /\ pending # <<>> /\ Head(pending).msg = msg

MsgMidiAccessGranted(max) ==
    /\ ~panicked /\ midi_access = "requested" /\ pending = <<>>
    /\ Dispatch("MidiAccessGranted",
                Sending(Handled(Self), <<[msg |-> "CreateTrack"]>>),
                "granted", None, <<>>, max)

MsgMidiAccessRefused(max) ==
    /\ ~panicked /\ midi_access = "requested" /\ pending = <<>>
    /\ Dispatch("MidiAccessRefused", Handled(Self), "refused", None, <<>>, max)

\* the track list offers the indices of the tracks that were rendered
MsgSelectTrack(max) ==
    /\ FromUser \/ FromQueue("SelectTrack")
    /\ \E index \in IF pending = <<>> THEN TrackIndices(Self)
                     ELSE {Head(pending).index} :
           Dispatch("SelectTrack", UpdateSelectTrack(Self, index), midi_access,
                    None, IF pending = <<>> THEN <<>> ELSE Tail(pending), max)

MsgDeselectTrack(max) ==
    /\ FromQueue("DeselectTrack")
    /\ Dispatch("DeselectTrack", UpdateDeselectTrack(Self), midi_access, None,
                Tail(pending), max)

MsgCreateTrack(max) ==
    /\ FromUser \/ FromQueue("CreateTrack")
    /\ Dispatch("CreateTrack", UpdateCreateTrack(Self), midi_access, None,
                IF pending = <<>> THEN <<>> ELSE Tail(pending), max)

MsgDeleteSelectedTrack(max) ==
    /\ FromUser
    /\ Dispatch("DeleteSelectedTrack", UpdateDeleteSelectedTrack(Self),
                midi_access, None, <<>>, max)

\* view_track_info renders the track's fields only while a track is selected
MsgRenameSelectedTrack(max) ==
    /\ FromUser
    /\ IsSome(selected_track_index)
    /\ Dispatch("RenameSelectedTrack", UpdateRenameSelectedTrack(Self, "Lead"),
                midi_access, None, <<>>, max)

\* numbers typed into the instrument input (it shows the instrument plus one)
InstrumentInputs == {0, 1, 41, 128, 129}

\* on_track_instrument_input: the message the input sends for the number
\* typed, if any; "instrument as _" converts the i64 to u8
on_track_instrument_input(value) ==
    LET instrument == value - 1
    IN  IF instrument >= 0 /\ instrument <= 127
        THEN Some(instrument % 256)
        ELSE None

MsgSetSelectedTrackInstrument(max) ==
    /\ FromUser
    /\ IsSome(selected_track_index)
    /\ \E value \in InstrumentInputs :
           /\ IsSome(on_track_instrument_input(value))
           /\ Dispatch("SetSelectedTrackInstrument",
                       UpdateSetSelectedTrackInstrument(
                           Self, Unwrap(on_track_instrument_input(value))),
                       midi_access, None, <<>>, max)

MsgSetProjectName(max) ==
    /\ FromUser
    /\ Dispatch("SetProjectName", UpdateSetProjectName(Self, "Song"),
                midi_access, None, <<>>, max)

\* numbers typed into the BPM input
BpmInputs == {-1, 0, 90}

\* the oninput callback of view_bpm: the text is parsed as u32 (0 <= value
\* < 2^32, written value \div 2^16 < 2^16) and every value that parses is sent
view_bpm_oninput(value) ==
    IF value >= 0 /\ value \div 65536 < 65536 THEN Some(value) ELSE None

MsgSetBpm(max) ==
    /\ FromUser
    /\ \E value \in BpmInputs :
           /\ IsSome(view_bpm_oninput(value))
           /\ Dispatch("SetBpm", UpdateSetBpm(Self, Unwrap(view_bpm_oninput(value))),
                       midi_access, None, <<>>, max)

MsgSetTimeSignatureTop(max) ==
    /\ FromUser
    /\ Dispatch("SetTimeSignatureTop", UpdateSetTimeSignatureTop(Self, 3),
                midi_access, None, <<>>, max)

MsgSetTimeSignatureBottom(max) ==
    /\ FromUser
    /\ Dispatch("SetTimeSignatureBottom", UpdateSetTimeSignatureBottom(Self, 8),
                midi_access, None, <<>>, max)

MsgPianoRollMouseDown(xs, ys, max) ==
    /\ FromUser
    /\ \E mouse_x \in xs, mouse_y \in ys, buttons \in {1, 2} :
           Dispatch("PianoRollMouseDown",
                    UpdatePianoRollMouseDown(Self, mouse_x, mouse_y, buttons),
                    midi_access, Some(<<mouse_x, mouse_y, buttons>>), <<>>, max)

MsgPianoRollMouseUp(max) ==
    /\ FromUser
    /\ Dispatch("PianoRollMouseUp", UpdatePianoRollMouseUp(Self), midi_access,
                None, <<>>, max)

MsgPianoRollMouseMove(xs, ys, max) ==
    /\ FromUser
    /\ \E mouse_x \in xs, mouse_y \in ys, buttons \in {0, 1, 2} :
           Dispatch("PianoRollMouseMove",
                    UpdatePianoRollMouseMove(Self, mouse_x, mouse_y, buttons),
                    midi_access, Some(<<mouse_x, mouse_y, buttons>>), <<>>, max)

MsgUndo(max) ==
    /\ FromUser
    /\ Dispatch("Undo", UpdateUndo(Self), midi_access, None, <<>>, max)

MsgRedo(max) ==
    /\ FromUser
    /\ Dispatch("Redo", UpdateRedo(Self), midi_access, None, <<>>, max)

\* the panels: the messages of the track list, the track's fields and the
\* top bar
PanelsNext ==
    \/ MsgMidiAccessGranted(MaxUiPerforms)
    \/ MsgMidiAccessRefused(MaxUiPerforms)
    \/ MsgSelectTrack(MaxUiPerforms)
    \/ MsgDeselectTrack(MaxUiPerforms)
    \/ MsgCreateTrack(MaxUiPerforms)
    \/ MsgDeleteSelectedTrack(MaxUiPerforms)
    \/ MsgRenameSelectedTrack(MaxUiPerforms)
    \/ MsgSetSelectedTrackInstrument(MaxUiPerforms)
    \/ MsgSetProjectName(MaxUiPerforms)
    \/ MsgSetBpm(MaxUiPerforms)
    \/ MsgSetTimeSignatureTop(MaxUiPerforms)
    \/ MsgSetTimeSignatureBottom(MaxUiPerforms)
    \/ MsgUndo(MaxUiPerforms)
    \/ MsgRedo(MaxUiPerforms)

SpecPanels == Init /\ [][PanelsNext]_vars

\* a message sent with link.send_message is handled: the scheduler runs the
\* queued update before it takes another event
QueuedUpdate == pending # <<>> /\ PanelsNext

SpecStartup == Init /\ [][PanelsNext]_vars /\ WF_vars(QueuedUpdate)

\* the piano roll: the pointer messages on the tracks' notes
PianoRollNext ==
    \/ MsgMidiAccessGranted(MaxRollPerforms)
    \/ MsgMidiAccessRefused(MaxRollPerforms)
    \/ MsgSelectTrack(MaxRollPerforms)
    \/ MsgCreateTrack(MaxRollPerforms)
    \/ MsgPianoRollMouseDown(MouseXs, MouseYs, MaxRollPerforms)
    \/ MsgPianoRollMouseUp(MaxRollPerforms)
    \/ MsgPianoRollMouseMove(MouseXs, MouseYs, MaxRollPerforms)
    \/ MsgUndo(MaxRollPerforms)
    \/ MsgRedo(MaxRollPerforms)

SpecPianoRoll == Init /\ [][PianoRollNext]_vars

\* SpecMidiData calls perform_action at most this many times in a behaviour
MaxDataPerforms == 2

\* pointer heights: above the top row, in the row of pitch 127, in the row
\* of pitch 0, below the bottom row
PointerYs == {-20, 15, 3825, 3900}
\* pointer positions: the start and the middle of a note created at x = 0
PointerXs == {0, 25}

\* the MIDI data: the pointer at any height of the piano roll and the
\* instrument input
MidiDataNext ==
    \/ MsgMidiAccessGranted(MaxDataPerforms)
    \/ MsgMidiAccessRefused(MaxDataPerforms)
    \/ MsgCreateTrack(MaxDataPerforms)
    \/ MsgSetSelectedTrackInstrument(MaxDataPerforms)
    \/ MsgPianoRollMouseDown(PointerXs, PointerYs, MaxDataPerforms)
    \/ MsgPianoRollMouseUp(MaxDataPerforms)
    \/ MsgPianoRollMouseMove(PointerXs, PointerYs, MaxDataPerforms)
    \/ MsgUndo(MaxDataPerforms)
    \/ MsgRedo(MaxDataPerforms)

SpecMidiData == Init /\ [][MidiDataNext]_vars

\* SpecTrackList calls perform_action at most this many times in a behaviour
MaxListPerforms == 4

\* the pointer presses at one place of the piano roll
PressXs == {0}

\* the track list next to the piano roll: tracks that hold notes are created,
\* selected and deleted
TrackListNext ==
    \/ MsgMidiAccessGranted(MaxListPerforms)
    \/ MsgMidiAccessRefused(MaxListPerforms)
    \/ MsgSelectTrack(MaxListPerforms)
    \/ MsgDeselectTrack(MaxListPerforms)
    \/ MsgCreateTrack(MaxListPerforms)
    \/ MsgDeleteSelectedTrack(MaxListPerforms)
    \/ MsgPianoRollMouseDown(PressXs, MouseYs, MaxListPerforms)
    \/ MsgPianoRollMouseUp(MaxListPerforms)
    \/ MsgUndo(MaxListPerforms)
    \/ MsgRedo(MaxListPerforms)

SpecTrackList == Init /\ [][TrackListNext]_vars

----------------------------------------------------------------------------
(* The MIDI file encoder: src/src/midi.rs.  Bytes are numbers 0 .. 255.     *)

\* enum MidiMessageType, struct MidiMessage
ChangeInstrument(instrument) == [tag |-> "ChangeInstrument", instrument |-> instrument]
NoteOn(pitch, velocity) == [tag |-> "NoteOn", pitch |-> pitch, velocity |-> velocity]
NoteOff(pitch, velocity) == [tag |-> "NoteOff", pitch |-> pitch, velocity |-> velocity]
MidiMessage(offset, type_) == [offset |-> offset, type_ |-> type_]

\* MidiMessageType::to_bytes
to_bytes(type_) ==
    CASE type_.tag = "ChangeInstrument" -> <<192, type_.instrument>>
      [] type_.tag = "NoteOn" -> <<144, type_.pitch, type_.velocity>>
      [] type_.tag = "NoteOff" -> <<128, type_.pitch, type_.velocity>>

\* let full_velocity = 0x7f
full_velocity == 127

\* faulty variant: the events carry the velocity stored in the note
RECURSIVE NoteMessagesStoredVelocity(_, _)
NoteMessagesStoredVelocity(track, notes) ==
    IF notes = <<>>
    THEN <<>>
    ELSE LET note == Head(notes)
         IN  <<MidiMessage(note.offset, ChangeInstrument(track.instrument)),
               MidiMessage(note.offset, NoteOn(note.pitch, note.velocity)),
               MidiMessage(note.offset + note.length,
                           NoteOff(note.pitch, note.velocity))>>
             \o NoteMessagesStoredVelocity(track, Tail(notes))

\* Project::to_midi, the inner loop: three messages pushed for every note
RECURSIVE NoteMessages(_, _)
NoteMessages(track, notes) ==
    IF notes = <<>>
    THEN <<>>
    ELSE LET note == Head(notes)
         IN  <<MidiMessage(note.offset, ChangeInstrument(track.instrument)),
               MidiMessage(note.offset, NoteOn(note.pitch, full_velocity)),
               MidiMessage(note.offset + note.length,
                           NoteOff(note.pitch, full_velocity))>>
             \o NoteMessages(track, Tail(notes))

\* Project::to_midi, the outer loop: the messages before they are sorted
RECURSIVE TrackMessages(_)
TrackMessages(tracks) ==
    IF tracks = <<>>
    THEN <<>>
    ELSE NoteMessages(Head(tracks), Head(tracks).notes) \o TrackMessages(Tail(tracks))

\* faulty variant: a message goes in front of the messages of equal offset
RECURSIVE InsertBeforeEqual(_, _)
InsertBeforeEqual(sorted, message) ==
    IF sorted = <<>>
    THEN <<message>>
    ELSE IF Head(sorted).offset < message.offset
         THEN <<Head(sorted)>> \o InsertBeforeEqual(Tail(sorted), message)
         ELSE <<message>> \o sorted

\* one step of the stable sort: message goes behind every message whose
\* offset is less than or equal to its own
RECURSIVE InsertSorted(_, _)
InsertSorted(sorted, message) ==
    IF sorted = <<>>
    THEN <<message>>
    ELSE IF Head(sorted).offset <= message.offset
         THEN <<Head(sorted)>> \o InsertSorted(Tail(sorted), message)
         ELSE <<message>> \o sorted

\* faulty variant: messages of equal offset are put in the order NoteOff,
\* ChangeInstrument, NoteOn instead of the order they were pushed in
RECURSIVE sort_by_offset_and_kind(_)
sort_by_offset_and_kind(messages) ==
    IF messages = <<>>
    THEN <<>>
    ELSE LET Kind(message) ==
                 CASE message.type_.tag = "NoteOff" -> 0
                   [] message.type_.tag = "ChangeInstrument" -> 1
                   [] message.type_.tag = "NoteOn" -> 2
             RECURSIVE Insert(_, _)
             Insert(sorted, message) ==
                 IF sorted = <<>>
                 THEN <<message>>
                 ELSE IF \/ Head(sorted).offset < message.offset
                         \/ /\ Head(sorted).offset = message.offset
                            /\ Kind(Head(sorted)) <= Kind(message)
                      THEN <<Head(sorted)>> \o Insert(Tail(sorted), message)
                      ELSE <<message>> \o sorted
         IN  Insert(sort_by_offset_and_kind(SubSeq(messages, 1, Len(messages) - 1)),
                    messages[Len(messages)])

\* messages.sort_by(|a, b| a.offset.partial_cmp(&b.offset).unwrap()):
\* slice::sort_by is stable
RECURSIVE sort_by_offset(_)
sort_by_offset(messages) ==
    IF messages = <<>>
    THEN <<>>
    ELSE InsertSorted(sort_by_offset(SubSeq(messages, 1, Len(messages) - 1)),
                      messages[Len(messages)])

\* Project::to_midi
to_midi(p) == sort_by_offset(TrackMessages(p.tracks))

\* faulty variant: the digits are pushed behind the first one (little-endian)
RECURSIVE VarlenLoopAppends(_, _)
VarlenLoopAppends(bytes, number) ==
    IF number = 0
    THEN bytes
    ELSE VarlenLoopAppends(bytes \o <<(number % 128) + 128>>, number \div 128)

\* to_varlen, the while loop: bytes.insert(0, (number & 0x7f | 0x80) as u8)
RECURSIVE VarlenLoop(_, _)
VarlenLoop(bytes, number) ==
    IF number = 0
    THEN bytes
    ELSE VarlenLoop(<<(number % 128) + 128>> \o bytes, number \div 128)

\* to_varlen(value: u32)
to_varlen(value) == VarlenLoop(<<value % 128>>, value \div 128)


\* faulty variant: the low byte first
to_be_bytes_u16_swapped(n) == <<n % 256, n \div 256>>
\* u16::to_be_bytes, u32::to_be_bytes
to_be_bytes_u16(n) == <<n \div 256, n % 256>>
to_be_bytes_u32(n) ==
    <<n \div 16777216, (n \div 65536) % 256, (n \div 256) % 256, n % 256>>

\* "MThd".bytes(), "MTrk".bytes()
MThd == <<77, 84, 104, 100>>
MTrk == <<77, 84, 114, 107>>

\* let ticks_per_quarter_note = 1024u16
ticks_per_quarter_note == 1024

\* (480.0 / project.bpm * ticks_per_quarter_note as f64).round() as u32, for
\* bpm >= 1.  480 * 1024 / bpm is half an integer only for bpm = 65536, where
\* the f64 quotient is exact, so rounding the exact quotient gives the same.
delta_multiplier(bpm) == Round(480 * ticks_per_quarter_note, bpm)

\* f64 as u32 of the fraction num / den (den > 0): the fraction is cut off
\* and a negative value becomes 0.  (Values above u32::MAX become u32::MAX;
\* the products formed here stay far below.)
AsU32(num, den) == IF num < 0 THEN 0 ELSE num \div den

\* export_midi, the loop over the messages: the delta time of each message
\* (delta whole notes times delta_multiplier, cast to u32) as a
\* variable-length quantity, then the bytes of the message
RECURSIVE EncodeMessages(_, _, _)
EncodeMessages(messages, last_offset, multiplier) ==
    IF messages = <<>>
    THEN <<>>
    ELSE LET message == Head(messages)
             delta == message.offset - last_offset
         IN  to_varlen(AsU32(delta * multiplier, MIN_DIVISION))
             \o to_bytes(message.type_)
             \o EncodeMessages(Tail(messages), message.offset, multiplier)

\* track_bytes.push(0); push(0xFF); push(0x2F); push(0)
EndOfTrack == <<0, 255, 47, 0>>

\* faulty variant: the track chunk is written without its last four bytes
export_midi_without_end(p) ==
    LET track_bytes == EncodeMessages(to_midi(p), 0, delta_multiplier(p.bpm))
    IN  MThd \o to_be_bytes_u32(6) \o to_be_bytes_u16(0) \o to_be_bytes_u16(1)
        \o to_be_bytes_u16(ticks_per_quarter_note)
        \o MTrk \o to_be_bytes_u32(Len(track_bytes))
        \o track_bytes

\* export_midi: the length is taken from track_bytes before the four bytes
\* of the end of the track are pushed
export_midi(p) ==
    LET track_bytes == EncodeMessages(to_midi(p), 0, delta_multiplier(p.bpm))
    IN  MThd \o to_be_bytes_u32(6) \o to_be_bytes_u16(0) \o to_be_bytes_u16(1)
        \o to_be_bytes_u16(ticks_per_quarter_note)
        \o MTrk \o to_be_bytes_u32(Len(track_bytes))
        \o track_bytes \o EndOfTrack


----------------------------------------------------------------------------
(* The encoder called on projects that the commands can build *)

\* the projects exported have at most this many tracks
MaxExportTracks == 2
\* and at most this many notes in a track
MaxExportNotes == 2
\* to_varlen is called with every value up to this one
MaxSmallValue == 300

\* a note with full velocity and one without; the second starts where the
\* first ends
ExportNotes == {Note(60, 127, 0, 4), Note(64, 100, 4, 2)}
ExportInstruments == {0, 40}
\* 480 * 1024 / 120 is a whole number of ticks, 480 * 1024 / 90 is not
ExportBpms == {120, 90}

SeqsUpTo(S, n) == UNION {[1 .. k -> S] : k \in 0 .. n}

ExportTracks ==
    {Track("Track 1", notes, instrument) :
        notes \in SeqsUpTo(ExportNotes, MaxExportNotes),
        instrument \in ExportInstruments}

ExportProjects ==
    {[InitialProject EXCEPT !.bpm = bpm, !.tracks = tracks] :
        bpm \in ExportBpms, tracks \in SeqsUpTo(ExportTracks, MaxExportTracks)}

\* the small values and the first and last value of two, three and four bytes
VarlenValues ==
    (0 .. MaxSmallValue) \cup {16383, 16384, 2097151, 2097152, 268435455}

\* the variables of the component, which a call of a pure function leaves alone
component_vars ==
    <<project, selected_track_index, note_operation, last_placed_note_length,
      undo_stack, redo_stack, midi_access, pending, panicked, last, base, run>>

Call(fn, arg, result) ==
    /\ called' = Some([fn |-> fn, arg |-> arg, result |-> result])
    /\ UNCHANGED <<component_vars, player_vars>>

\* the function called last
Called(fn) == IsSome(called) /\ Unwrap(called).fn = fn

\* one call in a behaviour: the functions are pure, a second call adds nothing
NotCalled == called = None

CallToMidi ==
    /\ NotCalled
    /\ \E p \in ExportProjects : Call("to_midi", p, to_midi(p))
CallExportMidi ==
    /\ NotCalled
    /\ \E p \in ExportProjects : Call("export_midi", p, export_midi(p))
CallToVarlen ==
    /\ NotCalled
    /\ \E value \in VarlenValues : Call("to_varlen", value, to_varlen(value))

EncoderNext ==
    \/ CallToMidi
    \/ CallExportMidi
    \/ CallToVarlen

SpecEncoder == Init /\ [][EncoderNext]_vars

----------------------------------------------------------------------------
(* The pointer arithmetic as pure functions: each behaviour makes one call   *)
(* of snap, mouse_x_to_interval or one of the three pointer-to-pitch         *)
(* computations on a pointer position drawn from the positions below.        *)

\* the pointer is at most this far left of or above the element (client_x -
\* rect.left() and client_y - rect.top() are negative there)
MaxOutside == 40
\* the pointer is at most this far right of the element's left edge
MaxSnapX == 100
\* the pointer is at most this far below the element's top edge; the rows of
\* the 128 pitches end at 128 * NOTE_RECT_HEIGHT = 3840
MaxPitchY == 3900

SnapXs == (-MaxOutside) .. MaxSnapX
PitchYs == (-MaxOutside) .. MaxPitchY

\* snap(0.09, 0.0625) and snap(0.10, 0.0625), in ten-thousandths
SnapExamples == {<<900, 625>>, <<1000, 625>>}

SnapInputs == {<<x, DIVISION_WIDTH>> : x \in SnapXs} \cup SnapExamples

CallSnap ==
    /\ NotCalled
    /\ \E input \in SnapInputs : Call("snap", input, snap(input[1], input[2]))

CallMouseXToInterval ==
    /\ NotCalled
    /\ \E mouse_x \in SnapXs :
           Call("mouse_x_to_interval", mouse_x, mouse_x_to_interval(mouse_x))

CallMouseYToPitch ==
    /\ NotCalled
    /\ \E mouse_y \in PitchYs :
           Call("mouse_y_to_pitch", mouse_y, mouse_y_to_pitch(mouse_y))

\* the pitch computed in PianoRollMouseDown for a new note
CallCreatedPitch ==
    /\ NotCalled
    /\ \E mouse_y \in PitchYs : Call("created_pitch", mouse_y, CreatedPitch(mouse_y))

\* the pitch computed in PianoRollMouseMove for the dragged note
CallDraggedPitch ==
    /\ NotCalled
    /\ \E mouse_y \in PitchYs : Call("dragged_pitch", mouse_y, DraggedPitch(mouse_y))

GeometryNext ==
    \/ CallSnap
    \/ CallMouseXToInterval
    \/ CallMouseYToPitch
    \/ CallCreatedPitch
    \/ CallDraggedPitch

SpecGeometry == Init /\ [][GeometryNext]_vars

----------------------------------------------------------------------------
(* Playback: Model::play of src/src/playback.rs.  The handlers of            *)
(* TogglePlayback and SetPlayProgress and the setter of the play offset are   *)
(* not in src/src/main.rs; here they do what the description of the playback  *)
(* scheduler says of them.                                                    *)

\* a Timeout created by play: the delay in milliseconds, the notes moved into
\* its callback (kind "on": sends 0x90 for each; kind "off": sends 0x80) and
\* whether the callback has run.  A cancelled timer is one popped off
\* playing_notes.
Timeout(kind, delay, notes) ==
    [kind |-> kind, delay |-> delay, notes |-> notes, fired |-> FALSE]

\* the timers that have not fired: their callbacks are still to come
Outstanding(timers) == {timer \in timers : ~timer.fired}

\* (interval * whole_note_duration * 1000.0) as u32, with whole_note_duration
\* = 240.0 / bpm and the interval in sixteenths.  The product is exact in f64
\* when bpm divides 240 by a power of two, as the 120 of a new project does.
AsMillis(interval, bpm) == AsU32(interval * 240000, MIN_DIVISION * bpm)

\* tracks.iter().flat_map(|track| track.notes.clone()).collect()
RECURSIVE all_notes(_)
all_notes(tracks) ==
    IF tracks = <<>> THEN <<>>
    ELSE Head(tracks).notes \o all_notes(Tail(tracks))

\* let end_safety = 6
end_safety == 6

\* faulty variant: the timers of the running playback are neither cancelled
\* nor looked at, the new ones are pushed behind them
play_keeps_timers(p, output, timers, offset) ==
    IF output = None THEN timers
    ELSE LET Playable(note) == note.offset >= offset
             notes == SelectSeq(all_notes(p.tracks), Playable)
             offset_ms(note) == AsMillis(note.offset - offset, p.bpm)
             stop_timeout_ms(note) == offset_ms(note) + AsMillis(note.length, p.bpm)
             starting(ms) == LET At(note) == offset_ms(note) = ms
                             IN  SelectSeq(notes, At)
             ending(ms) == LET At(note) == stop_timeout_ms(note) = ms
                           IN  SelectSeq(notes, At)
         IN  timers
             \cup
             {Timeout("on", offset_ms(notes[k]), starting(offset_ms(notes[k]))) :
                  k \in 1 .. Len(notes)}
             \cup
             {Timeout("off",
                      (IF stop_timeout_ms(notes[k]) > end_safety
                       THEN stop_timeout_ms(notes[k]) ELSE end_safety) - end_safety,
                      ending(stop_timeout_ms(notes[k]))) :
                  k \in 1 .. Len(notes)}

\* Model::play: playing_notes after the call.  Without an output nothing
\* happens; otherwise every timer is popped and cancelled, and only if there
\* was none, one timer is pushed for each key of notes_by_offset_ms and one
\* for each key of note_ends.  playing_notes is a set here: the timers are
\* pushed in the iteration order of a HashMap and the order is never read.
play(p, output, timers, offset) ==
    IF output = None THEN timers
    ELSE IF timers # {} THEN {}
    ELSE LET Playable(note) == note.offset >= offset
             notes == SelectSeq(all_notes(p.tracks), Playable)
             offset_ms(note) == AsMillis(note.offset - offset, p.bpm)
             stop_timeout_ms(note) == offset_ms(note) + AsMillis(note.length, p.bpm)
             starting(ms) == LET At(note) == offset_ms(note) = ms
                             IN  SelectSeq(notes, At)
             ending(ms) == LET At(note) == stop_timeout_ms(note) = ms
                           IN  SelectSeq(notes, At)
         IN  {Timeout("on", offset_ms(notes[k]), starting(offset_ms(notes[k]))) :
                  k \in 1 .. Len(notes)}
             \cup
             {Timeout("off",
                      (IF stop_timeout_ms(notes[k]) > end_safety
                       THEN stop_timeout_ms(notes[k]) ELSE end_safety) - end_safety,
                      ending(stop_timeout_ms(notes[k]))) :
                  k \in 1 .. Len(notes)}

\* what the callback of a timer sends with Msg::SetPlayProgress
Progress(timer) ==
    IF timer.kind = "on"
    THEN timer.notes[1].offset
    ELSE timer.notes[1].offset + timer.notes[1].length

\* the project's total length: the end of its last note
TotalLength(p) ==
    LET notes == all_notes(p.tracks)
        ends == {notes[k].offset + notes[k].length : k \in 1 .. Len(notes)}
    IN  IF ends = {} THEN 0 ELSE CHOOSE end \in ends : \A other \in ends : other <= end

\* SetPlayProgress: the cursor moves, and playback stops (no timer is left)
\* when it reaches the project's total length
UpdateSetPlayProgress(p, timers, progress) ==
    [play_progress |-> progress,
     playing_notes |-> IF progress >= TotalLength(p) THEN {} ELSE timers]

\* SpecPlayback calls perform_action at most this many times in a behaviour
MaxPlayPerforms == 3
\* the play offset is set to at most this many sixteenths
MaxPlayOffset == 2

\* a long note and a short one that begins and ends inside it
PlayNotes == {Note(60, 127, 0, 4), Note(64, 127, 2, 1)}

\* the commands that build the project to play: a new track, either note
\* appended to any track
PlayCommands(m) ==
    {CreateTrack(Track(TrackName(Len(m.project.tracks)), <<>>, 0))}
    \cup {CreateNote(i, x) : i \in TrackIndices(m), x \in PlayNotes}

\* the project is built before the first press of Play/Stop
PlayerPerform ==
    /\ NotCalled
    /\ \E action \in PlayCommands(Self) : EnginePerform(action, MaxPlayPerforms)

\* Msg::SetOutputDevice(output): an output is chosen in the list
MsgSetOutputDevice ==
    /\ ~panicked
    /\ selected_output = None
    /\ selected_output' = Some("output")
    /\ UNCHANGED <<component_vars, called, playing_notes, play_offset, play_progress>>

\* the play offset is set by the user
MsgSetPlayOffset ==
    /\ ~panicked
    /\ \E offset \in 0 .. MaxPlayOffset :
           /\ offset # play_offset
           /\ play_offset' = offset
    /\ UNCHANGED <<component_vars, called, selected_output, playing_notes, play_progress>>

\* Msg::TogglePlayback, sent by the Play/Stop button: the handler calls play
MsgTogglePlayback ==
    /\ ~panicked
    /\ LET timers == play(project, selected_output, playing_notes, play_offset)
       IN  /\ playing_notes' = timers
           /\ called' = Some([fn |-> "play",
                              arg |-> [project |-> project,
                                       selected_output |-> selected_output,
                                       playing_notes |-> playing_notes,
                                       play_offset |-> play_offset],
                              result |-> timers])
    /\ UNCHANGED <<component_vars, selected_output, play_offset, play_progress>>

\* the timer with the least delay fires: its callback sends the notes to the
\* output and Msg::SetPlayProgress to the component, which handles it.  The
\* Timeout stays in playing_notes.
TimerFires ==
    /\ ~panicked
    /\ \E timer \in Outstanding(playing_notes) :
           /\ \A other \in Outstanding(playing_notes) : timer.delay <= other.delay
           /\ LET fired == (playing_notes \ {timer}) \cup {[timer EXCEPT !.fired = TRUE]}
                  handled == UpdateSetPlayProgress(project, fired, Progress(timer))
              IN  /\ playing_notes' = handled.playing_notes
                  /\ play_progress' = handled.play_progress
    /\ UNCHANGED <<component_vars, called, selected_output, play_offset>>

PlaybackNext ==
    \/ PlayerPerform
    \/ MsgSetOutputDevice
    \/ MsgSetPlayOffset
    \/ MsgTogglePlayback
    \/ TimerFires

SpecPlayback == Init /\ [][PlaybackNext]_vars

----------------------------------------------------------------------------
(* Properties of the command engine *)

\* the selection is absent or names an existing track, and nothing has panicked
ValidState(m) ==
    /\ ~m.panicked
    /\ \/ m.selected_track_index = None
       \/ Unwrap(m.selected_track_index) < Len(m.project.tracks)

\* apply action in m, then apply the inverse that was returned: the project
\* and the selection are those of m again
RoundTrips(m, action) ==
    LET there == perform_action_impl(m, action)
        back == perform_action_impl(there.m, Unwrap(there.inverse))
    IN  /\ ~there.m.panicked
        /\ ~back.m.panicked
        /\ Core(back.m) = Core(m)

\* C1 as stated: in every valid state, every command of the catalogue whose
\* indices are in range round-trips: applying it and then the returned
\* inverse restores name, bpm, time signature, tracks with their notes in
\* order, and the selection.
C1_RoundTripLaw ==
    ValidState(Self) => \A action \in Catalogue(Self) : RoundTrips(Self, action)

\* C1 amended: the round-trip law holds for every command except a
\* DeleteTrack that removes a track other than the last one, a DeleteTrack
\* that removes the selected track while other tracks remain, a DeleteTrack
\* that removes the only track while it is not selected, and a DeleteNote
\* that removes a note other than the last one of its track.
C1_RoundTripExceptReappend ==
    ValidState(Self) =>
        \A action \in Catalogue(Self) :
            ExactlyInvertible(Self, action) => RoundTrips(Self, action)

\* a DeleteTrack of the last, unselected track has been performed and undone,
\* and the project and selection are those from before the perform
C1_Witness ==
    /\ run.phase = "undo" /\ run.n = 0 /\ run.len = 1 /\ run.exact
    /\ last.call = "undo_last"
    /\ last.action # None /\ Unwrap(last.action).type = "CreateTrack"
    /\ Len(project.tracks) >= 2
    /\ selected_track_index = Some(0)
    /\ Some(Core(Self)) = base

\* C2 as stated: after n >= 1 performs followed by exactly n undos, the
\* project and the selection equal those before the first perform.
C2_UndoSymmetry ==
    (run.phase = "undo" /\ run.n = 0) =>
        (~panicked /\ Some(Core(Self)) = base)

\* C2 amended: after n >= 1 performs followed by exactly n undos, the project
\* and the selection equal those before the first perform, provided that
\* every DeleteTrack of the sequence removed the last track (not the
\* selected one when other tracks remained, the selected one when it was the
\* only track) and every DeleteNote removed the last note of its track.
C2_UndoSymmetryExact ==
    (run.phase = "undo" /\ run.n = 0 /\ run.exact) =>
        (~panicked /\ Some(Core(Self)) = base)

\* three performs, a DeleteTrack among them, have been undone by three undos
C2_Witness ==
    /\ run.phase = "undo" /\ run.n = 0 /\ run.len = 3 /\ run.exact
    /\ ~panicked
    /\ \E i \in 1 .. Len(redo_stack) : redo_stack[i].type = "DeleteTrack"
    /\ \E i \in 1 .. Len(redo_stack) : redo_stack[i].type = "RenameTrack"

\* the step just taken applied DeleteTrack / CreateTrack without panicking
Applied(type) ==
    /\ last'.action # None
    /\ Unwrap(last'.action).type = type
    /\ ~panicked'

\* C3: DeleteTrack(i) removes exactly the track at index i, the tracks before
\* it keep their index and the tracks after it move down by one, and the
\* inverse it returns carries the removed track; applying that inverse (the
\* undo) appends the track at the end of the list, not at index i.
C3_IndexShift ==
    [][/\ Applied("DeleteTrack") =>
            LET i == Unwrap(last'.action).index
                old == project.tracks
                new == project'.tracks
            IN  /\ Len(new) = Len(old) - 1
                /\ \A k \in 0 .. (Len(new) - 1) :
                       VecGet(new, k) = IF k < i THEN VecGet(old, k)
                                        ELSE VecGet(old, k + 1)
                /\ last'.inverse = Some(CreateTrack(VecGet(old, i)))
       /\ Applied("CreateTrack") =>
            LET old == project.tracks
                new == project'.tracks
            IN  /\ Len(new) = Len(old) + 1
                /\ \A k \in 0 .. (Len(old) - 1) : VecGet(new, k) = VecGet(old, k)
                /\ VecLast(new) = Unwrap(last'.action).track
      ]_vars

TrackNamesOf(tracks) == [k \in 1 .. Len(tracks) |-> tracks[k].name]

\* tracks [A,B,C]: DeleteTrack(1) was performed and then undone, giving [A,C,B]
C3_Witness ==
    /\ run.phase = "undo" /\ run.n = 0 /\ run.len = 1
    /\ base # None
    /\ TrackNamesOf(Unwrap(base).project.tracks) = <<"Track 1", "Track 2", "Track 3">>
    /\ last.call = "undo_last"
    /\ last.action = Some(CreateTrack(Track("Track 2", <<>>, 0)))
    /\ last.inverse = Some(DeleteTrack(2))
    /\ TrackNamesOf(project.tracks) = <<"Track 1", "Track 3", "Track 2">>

\* C6: perform(cmd) applies cmd, pushes exactly the inverse that the
\* application returned onto the undo stack and leaves the redo stack as it
\* was, so a later redo still pops and applies the old redo entry.
C6_PerformKeepsRedo ==
    [][(last'.call = "perform_action" /\ ~panicked') =>
          /\ undo_stack' = Append(undo_stack, Unwrap(last'.inverse))
          /\ redo_stack' = redo_stack
          /\ Core(Self)' = Core(perform_action_impl(Self, Unwrap(last'.action)).m)
      ]_vars

\* a redo right after a fresh perform popped and applied an old redo entry
C6_Witness ==
    /\ last.call = "redo_last"
    /\ last.prev = "perform_action"
    /\ last.action # None
    /\ last.inverse # None
    /\ ~panicked

\* C7: on a non-empty undo stack undo() pops exactly the top command, applies
\* it and pushes the inverse returned by the application onto the redo
\* stack; every other entry of both stacks stays.  redo() does the same with
\* the stacks exchanged.  (When the application panics on a stale index the
\* entry has been popped and nothing is returned, so nothing is pushed.)
C7_UndoRedoMoveOneEntry ==
    [][/\ (last'.call = "undo_last" /\ undo_stack # <<>>) =>
            /\ last'.action = Some(VecLast(undo_stack))
            /\ undo_stack' = SubSeq(undo_stack, 1, Len(undo_stack) - 1)
            /\ redo_stack' = IF panicked' THEN redo_stack
                             ELSE Append(redo_stack, Unwrap(last'.inverse))
            /\ Core(Self)' = Core(perform_action_impl(Self, VecLast(undo_stack)).m)
       /\ (last'.call = "redo_last" /\ redo_stack # <<>>) =>
            /\ last'.action = Some(VecLast(redo_stack))
            /\ redo_stack' = SubSeq(redo_stack, 1, Len(redo_stack) - 1)
            /\ undo_stack' = IF panicked' THEN undo_stack
                             ELSE Append(undo_stack, Unwrap(last'.inverse))
            /\ Core(Self)' = Core(perform_action_impl(Self, VecLast(redo_stack)).m)
      ]_vars

\* an undo moved one entry while both stacks held other entries
C7_Witness ==
    /\ last.call = "undo_last"
    /\ last.action # None
    /\ ~panicked
    /\ Len(undo_stack) >= 1
    /\ Len(redo_stack) >= 2
    /\ VecLast(redo_stack) = Unwrap(last.inverse)

\* C8: undo() on an empty undo stack and redo() on an empty redo stack raise
\* no error and leave project, selection and both stacks unchanged.
C8_EmptyStackNoOp ==
    [][(\/ last'.call = "undo_last" /\ undo_stack = <<>>
        \/ last'.call = "redo_last" /\ redo_stack = <<>>) =>
          /\ ~panicked'
          /\ UNCHANGED <<project, selected_track_index, undo_stack, redo_stack,
                         note_operation, last_placed_note_length>>
      ]_vars

\* redo() was called on an empty redo stack in a project that has tracks
C8_Witness ==
    /\ last.call = "redo_last"
    /\ last.action = None
    /\ redo_stack = <<>>
    /\ undo_stack # <<>>
    /\ project.tracks # <<>>

----------------------------------------------------------------------------
(* Properties of the component *)

\* C4: selection never dangles.  In every state reached by the track list's
\* messages, undo and redo, the selected track index is absent or smaller
\* than the number of tracks.
C4_SelectionNeverDangles ==
    \/ selected_track_index = None
    \/ Unwrap(selected_track_index) < Len(project.tracks)

\* C5: no stale index is ever applied.  Every command that perform_action,
\* undo_last or redo_last applies has its indices in range, so the
\* application returns an inverse instead of panicking.
C5_NoStaleIndexApplied ==
    IsSome(last.action) => IsSome(last.inverse)

\* the lengths of the track list and of every track's note list
Shape(tracks) == [t \in 1 .. Len(tracks) |-> Len(tracks[t].notes)]

\* C9: tracks and notes are created and destroyed only through the engine.
\* Every step that adds or removes a track or a note is a perform, undo or
\* redo step that pushes an entry on the undo stack or on the redo stack.
C9_OnlyTheEngineCreatesAndDestroys ==
    [][Shape(project.tracks') # Shape(project.tracks)
           => /\ last'.call \in {"perform_action", "undo_last", "redo_last"}
              /\ \/ Len(undo_stack') > Len(undo_stack)
                 \/ Len(redo_stack') > Len(redo_stack)]_vars

\* C10: the length floor.  In every state reached by the piano roll's
\* messages, undo and redo, every note of every track is at least
\* MIN_INTERVAL long, also while a drag is in progress.
C10_LengthFloor ==
    \A t \in 1 .. Len(project.tracks) :
        \A n \in 1 .. Len(project.tracks[t].notes) :
            project.tracks[t].notes[n].length >= MIN_INTERVAL

\* a drag of a right edge computed a length below the floor and the floor
\* replaced it
C10_Witness ==
    /\ ~panicked
    /\ last.msg = "PianoRollMouseMove"
    /\ IsSome(last.dragged)
    /\ Unwrap(last.dragged).length < MIN_INTERVAL
    /\ IsSome(note_operation)
    /\ Unwrap(note_operation).type_.tag = "DragRightEdge"
    /\ last_placed_note_length = MIN_INTERVAL
    /\ C10_LengthFloor

----------------------------------------------------------------------------
(* Properties of single commands *)

\* a length the floor applies to: length (in sixteenths) below 1e-4 whole notes
BelowFloor(length) == 10000 * length < MIN_DIVISION

\* the drags a pointer at mouse_x can make of note: every NoteOperationType
\* PianoRollMouseDown can have stored for it
DragTypes(note) ==
    {DragLeftEdge(note.offset, note.length), DragRightEdge(note.length), CreateAndMove}
    \cup {Move(g, note.offset, note.pitch) : g \in 0 .. 1}

\* C11: an EditNote command or a drag step that would set a note's length to
\* 1e-4 or less leaves the note with length exactly MIN_INTERVAL, never zero
\* or negative.
C11_EditAndDragFloorTheLength ==
    \A t \in TrackIndices(Self) : \A n \in NoteIndices(Self, t) :
        LET note == NoteAt(Self, t, n)
        IN  /\ \A e \in Edits :
                  BelowFloor(e.length) =>
                      NoteAt(perform_action_impl(
                                 Self, EditNote(t, n, e.offset, e.pitch, e.length)).m,
                             t, n).length = MIN_INTERVAL
            /\ \A type_ \in DragTypes(note), mouse_x \in MouseXs, mouse_y \in MouseYs :
                  LET dragged == DraggedNote(note, type_, mouse_x_to_interval(mouse_x),
                                             DraggedPitch(mouse_y))
                  IN  BelowFloor(dragged.length) =>
                          LengthFloor(dragged).length = MIN_INTERVAL

----------------------------------------------------------------------------
(* Properties of the notes the piano roll makes *)

\* C12: the offset invariant.  In every state reached by the piano roll's
\* messages, undo and redo, every note's offset is at least 0, also when a
\* Move drag grabbed the note away from its left end and the pointer is
\* dragged to the left border.
C12_OffsetNeverNegative ==
    \A t \in 1 .. Len(project.tracks) :
        \A n \in 1 .. Len(project.tracks[t].notes) :
            project.tracks[t].notes[n].offset >= 0

\* C13: the MIDI data ranges.  In every reachable state every note's pitch
\* and velocity and every track's instrument lie in 0 .. 127, wherever the
\* pointer is (also above the top row and below the bottom row) and whatever
\* number the instrument input accepted.
C13_MidiDataInRange ==
    \A t \in 1 .. Len(project.tracks) :
        /\ project.tracks[t].instrument \in 0 .. 127
        /\ \A n \in 1 .. Len(project.tracks[t].notes) :
               /\ project.tracks[t].notes[n].pitch \in 0 .. 127
               /\ project.tracks[t].notes[n].velocity \in 0 .. 127

\* a note of a track with the highest instrument accepted has been dragged
\* below the bottom row and has pitch 0
C13_Witness ==
    /\ ~panicked
    /\ last.msg = "PianoRollMouseMove"
    /\ IsSome(last.mouse)
    /\ Unwrap(last.mouse)[2] > 128 * NOTE_RECT_HEIGHT
    /\ IsSome(last.dragged)
    /\ Unwrap(last.dragged).pitch = 0
    /\ \E t \in 1 .. Len(project.tracks) :
           /\ project.tracks[t].instrument = 127
           /\ \E n \in 1 .. Len(project.tracks[t].notes) :
                  project.tracks[t].notes[n] = LengthFloor(Unwrap(last.dragged))

\* C14: BPM positivity.  In every state reached by the SetBpm messages of
\* the BPM input, undo and redo, project.bpm is at least 1.
C14_BpmPositive == project.bpm >= 1

----------------------------------------------------------------------------
(* The effect of each command on the project and the selection *)

\* the step just taken applied a command of this type, which returned an
\* inverse that went on one of the stacks
Did(type) ==
    /\ <<undo_stack, redo_stack>>' # <<undo_stack, redo_stack>>
    /\ IsSome(last'.action)
    /\ Unwrap(last'.action).type = type
    /\ IsSome(last'.inverse)

\* C15: CreateTrack(track) appends the track at the end of the track list and
\* returns DeleteTrack(n), n being the number of tracks before the append; the
\* selection becomes index 0 exactly when the list was empty before, and is
\* left as it was otherwise.
C15_CreateTrackAppendsAndSelectsFirst ==
    [][Did("CreateTrack") =>
           LET n == Len(project.tracks)
           IN  /\ project' = [project EXCEPT
                                 !.tracks = Append(@, Unwrap(last'.action).track)]
               /\ last'.inverse = Some(DeleteTrack(n))
               /\ selected_track_index' =
                      IF n = 0 THEN Some(0) ELSE selected_track_index
      ]_vars

\* a second track was created while the first one was selected
C15_Witness ==
    /\ ~panicked
    /\ last.call = "perform_action"
    /\ last.action = Some(CreateTrack(Track("Track 2", <<>>, 0)))
    /\ last.inverse = Some(DeleteTrack(1))
    /\ Len(project.tracks) = 2
    /\ selected_track_index = Some(0)

\* C16: DeleteTrack(index) clears the selection exactly when the selected
\* index equals index; an absent, a smaller and a greater selection are left
\* as they were, number for number; the inverse returned is CreateTrack
\* carrying the removed track with all its notes.
C16_DeleteTrackSelectionFrame ==
    [][Did("DeleteTrack") =>
           LET index == Unwrap(last'.action).index
           IN  /\ selected_track_index' =
                      IF selected_track_index = Some(index)
                      THEN None
                      ELSE selected_track_index
               /\ last'.inverse = Some(CreateTrack(VecGet(project.tracks, index)))
      ]_vars

\* the first of two tracks, holding a note, was removed while the second was
\* selected: the selection still reads 1
C16_Witness ==
    /\ last.action = Some(DeleteTrack(0))
    /\ IsSome(last.inverse)
    /\ Unwrap(last.inverse).type = "CreateTrack"
    /\ Len(Unwrap(last.inverse).track.notes) = 1
    /\ selected_track_index = Some(1)
    /\ Len(project.tracks) = 1

\* C17: CreateNote(t, note) appends the note at the end of track t's notes
\* and returns DeleteNote(t, n), n being the number of notes before the
\* append; DeleteNote(t, i) removes exactly note i of track t, moves the later
\* notes down by one and returns CreateNote(t, removed note), so that undoing
\* a delete appends the note at the end, not at position i; neither command
\* changes another track or the selection.
C17_NotesAppendAndRemove ==
    [][/\ Did("CreateNote") =>
            LET t == Unwrap(last'.action).track_index
                note == Unwrap(last'.action).note
                old == VecGet(project.tracks, t).notes
            IN  /\ project' = [project EXCEPT !.tracks[t + 1].notes = Append(old, note)]
                /\ last'.inverse = Some(DeleteNote(t, Len(old)))
                /\ selected_track_index' = selected_track_index
       /\ Did("DeleteNote") =>
            LET t == Unwrap(last'.action).track_index
                i == Unwrap(last'.action).note_index
                old == VecGet(project.tracks, t).notes
                new == VecGet(project'.tracks, t).notes
            IN  /\ project' = [project EXCEPT !.tracks[t + 1].notes = new]
                /\ Len(new) = Len(old) - 1
                /\ \A k \in 0 .. (Len(new) - 1) :
                       VecGet(new, k) = IF k < i THEN VecGet(old, k)
                                        ELSE VecGet(old, k + 1)
                /\ last'.inverse = Some(CreateNote(t, VecGet(old, i)))
                /\ selected_track_index' = selected_track_index
      ]_vars

\* the first of two notes was deleted and the delete undone: the note is back
\* behind the other one
C17_Witness ==
    /\ ~panicked
    /\ last.call = "undo_last"
    /\ last.action = Some(CreateNote(0, Note(60, 127, 0, 4)))
    /\ last.inverse = Some(DeleteNote(0, 1))
    /\ project.tracks[1].notes = <<Note(64, 100, 4, 2), Note(60, 127, 0, 4)>>

\* C18: each field-setting command (RenameProject, SetBpm,
\* SetTimeSignatureTop, SetTimeSignatureBottom, RenameTrack,
\* SetTrackInstrument, EditNote) overwrites only the fields it names on the
\* project, track or note it addresses, returns the same variant with the same
\* indices and the previous values, and leaves every other field, the length
\* and order of the track and note lists, and the selection as they were.
C18_SettersOverwriteOnlyTheirFields ==
    [][LET a == Unwrap(last'.action)
           tracks == project.tracks
       IN
       /\ Did("RenameProject") =>
              /\ project' = [project EXCEPT !.name = a.name]
              /\ last'.inverse = Some(RenameProject(project.name))
              /\ selected_track_index' = selected_track_index
       /\ Did("SetBpm") =>
              /\ project' = [project EXCEPT !.bpm = a.bpm]
              /\ last'.inverse = Some(SetBpm(project.bpm))
              /\ selected_track_index' = selected_track_index
       /\ Did("SetTimeSignatureTop") =>
              /\ project' = [project EXCEPT !.time_signature.top = a.top]
              /\ last'.inverse = Some(SetTimeSignatureTop(project.time_signature.top))
              /\ selected_track_index' = selected_track_index
       /\ Did("SetTimeSignatureBottom") =>
              /\ project' = [project EXCEPT !.time_signature.bottom = a.bottom]
              /\ last'.inverse =
                     Some(SetTimeSignatureBottom(project.time_signature.bottom))
              /\ selected_track_index' = selected_track_index
       /\ Did("RenameTrack") =>
              /\ project' = [project EXCEPT !.tracks[a.index + 1].name = a.name]
              /\ last'.inverse = Some(RenameTrack(a.index, tracks[a.index + 1].name))
              /\ selected_track_index' = selected_track_index
       /\ Did("SetTrackInstrument") =>
              /\ project' = [project EXCEPT
                                !.tracks[a.index + 1].instrument = a.instrument]
              /\ last'.inverse =
                     Some(SetTrackInstrument(a.index, tracks[a.index + 1].instrument))
              /\ selected_track_index' = selected_track_index
       /\ Did("EditNote") =>
              LET old == tracks[a.track_index + 1].notes[a.note_index + 1]
              IN  /\ project' =
                         [project EXCEPT
                            !.tracks[a.track_index + 1].notes[a.note_index + 1] =
                                Note(a.pitch, old.velocity, a.offset, a.length)]
                  /\ last'.inverse =
                         Some(EditNote(a.track_index, a.note_index,
                                       old.offset, old.pitch, old.length))
                  /\ selected_track_index' = selected_track_index
      ]_vars

\* a note of velocity 100 was edited: offset, pitch and length are the new
\* ones, the velocity is the old one
C18_Witness ==
    /\ ~panicked
    /\ last.call = "perform_action"
    /\ last.action = Some(EditNote(0, 0, 2, 62, 1))
    /\ last.inverse = Some(EditNote(0, 0, 4, 64, 2))
    /\ project.tracks[1].notes = <<Note(62, 100, 2, 1)>>
    /\ selected_track_index = Some(0)

----------------------------------------------------------------------------
(* The start of the application *)

\* the model as Model::create leaves it
Started ==
    /\ project = [name |-> "Untitled",
                  time_signature |-> [top |-> 4, bottom |-> 4],
                  bpm |-> 120,
                  tracks |-> <<>>]
    /\ selected_track_index = None
    /\ undo_stack = <<>>
    /\ redo_stack = <<>>

\* MidiAccessGranted has been handled and the CreateTrack it sent is waiting
FirstTrackQueued == pending = <<[msg |-> "CreateTrack"]>>

\* the model after the first CreateTrack
FirstTrackCreated ==
    /\ Len(project.tracks) = 1
    /\ project.tracks[1].instrument = 0
    /\ project.tracks[1].notes = <<>>
    /\ selected_track_index = Some(0)
    /\ undo_stack = <<DeleteTrack(0)>>
    /\ pending = <<>>

\* C19: the startup lifecycle.  The project starts as "Untitled", 4/4, 120
\* bpm, without tracks, selection or stack entries, and stays so until MIDI
\* access is granted; the grant sends exactly one CreateTrack, which is
\* performed, and after it the project has exactly one empty track
\* (instrument 0, no notes), the selection is index 0 and the undo stack
\* holds exactly DeleteTrack(0).
C19_StartupLifecycle ==
    /\ [](midi_access = "requested" => Started)
    /\ [][midi_access = "requested" /\ midi_access' = "granted"
              => FirstTrackQueued' /\ Started']_vars
    /\ [][FirstTrackQueued /\ pending' # pending
              => /\ FirstTrackCreated'
                 /\ last'.call = "perform_action"
                 /\ IsSome(last'.action)
                 /\ Unwrap(last'.action).type = "CreateTrack"]_vars
    /\ FirstTrackQueued ~> FirstTrackCreated

\* the first track has just been created by the message that the grant sent
C19_Witness ==
    /\ midi_access = "granted"
    /\ last.msg = "CreateTrack"
    /\ Performs = 1
    /\ FirstTrackCreated
    /\ ~panicked

----------------------------------------------------------------------------
(* Commands that fail *)

\* the step just taken applied a command whose index was out of range: the
\* application panicked and returned nothing
Failed ==
    /\ ~panicked /\ panicked'
    /\ IsSome(last'.action)
    /\ ~IsSome(last'.inverse)

\* C20: no command is ever partially applied.  When a command carries a track
\* or note index that is out of range the application fails at once, and at
\* the point of failure the project, the selection and both stacks are
\* exactly as they were before the perform, undo or redo call began.
C20_NoPartialApplication ==
    [][Failed =>
           /\ project' = project
           /\ selected_track_index' = selected_track_index
           /\ undo_stack' = undo_stack
           /\ redo_stack' = redo_stack
      ]_vars

----------------------------------------------------------------------------
(* Properties of the MIDI file *)

\* the bytes export_midi returned
FileBytes == Unwrap(called).result

\* C21: for every project, the first 14 bytes of the output of export_midi
\* are the header chunk: "MThd", the big-endian 32-bit length 6, the 16-bit
\* format 0, the 16-bit track count 1 and the 16-bit division 1024; "MTrk"
\* follows at once.
C21_HeaderChunk ==
    Called("export_midi") =>
        /\ Len(FileBytes) >= 18
        /\ SubSeq(FileBytes, 1, 14) =
               <<77, 84, 104, 100, 0, 0, 0, 6, 0, 0, 0, 1, 4, 0>>
        /\ SubSeq(FileBytes, 15, 18) = <<77, 84, 114, 107>>

\* a project of two tracks with notes, at 90 bpm, was exported
C21_Witness ==
    /\ Called("export_midi")
    /\ Unwrap(called).arg.bpm = 90
    /\ Len(Unwrap(called).arg.tracks) = 2
    /\ \A t \in 1 .. 2 : Unwrap(called).arg.tracks[t].notes # <<>>
    /\ Len(FileBytes) > 26

\* the number that four big-endian bytes stand for
from_be_bytes_u32(b) == ((b[1] * 256 + b[2]) * 256 + b[3]) * 256 + b[4]

\* the bytes behind the length field of the track chunk
TrackChunkBody == SubSeq(FileBytes, 23, Len(FileBytes))

\* C22: the big-endian 32-bit length written after "MTrk" is the byte length
\* of the encoded events plus the four bytes of the end-of-track marker: the
\* number of bytes that follow the length field up to the end of the file.
C22_TrackChunkLength ==
    Called("export_midi") =>
        from_be_bytes_u32(SubSeq(FileBytes, 19, 22)) = Len(TrackChunkBody)

----------------------------------------------------------------------------
(* Properties of the message stream *)

\* the places <<track, note>> of the notes of project p (1-based)
NotePlaces(p) ==
    UNION {{<<t, n>> : n \in 1 .. Len(p.tracks[t].notes)} : t \in 1 .. Len(p.tracks)}

\* how often x occurs in the sequence s
Occurrences(s, x) == Cardinality({k \in 1 .. Len(s) : s[k] = x})

\* C23: for a project with n notes in total the message stream has exactly 3n
\* events: for every note of every track one ProgramChange with the track's
\* instrument at the note's offset, one NoteOn(pitch, 127) at the note's
\* offset and one NoteOff(pitch, 127) at offset + length, whatever velocity
\* the note stores.
C23_ThreeEventsPerNote ==
    Called("to_midi") =>
        LET p == Unwrap(called).arg
            stream == Unwrap(called).result
            note(r) == p.tracks[r[1]].notes[r[2]]
            program(r) == [offset |-> note(r).offset,
                           type_ |-> [tag |-> "ChangeInstrument",
                                      instrument |-> p.tracks[r[1]].instrument]]
            on(r) == [offset |-> note(r).offset,
                      type_ |-> [tag |-> "NoteOn", pitch |-> note(r).pitch,
                                 velocity |-> 127]]
            off(r) == [offset |-> note(r).offset + note(r).length,
                       type_ |-> [tag |-> "NoteOff", pitch |-> note(r).pitch,
                                  velocity |-> 127]]
            expected(x) == Cardinality({r \in NotePlaces(p) : program(r) = x})
                           + Cardinality({r \in NotePlaces(p) : on(r) = x})
                           + Cardinality({r \in NotePlaces(p) : off(r) = x})
        IN  /\ Len(stream) = 3 * Cardinality(NotePlaces(p))
            /\ \A r \in NotePlaces(p) :
                   \A x \in {program(r), on(r), off(r)} :
                       Occurrences(stream, x) = expected(x)

\* the stream of two tracks with different instruments, each holding the
\* note of velocity 100 and then the note of velocity 127
C23_Witness ==
    /\ Called("to_midi")
    /\ Len(Unwrap(called).arg.tracks) = 2
    /\ Unwrap(called).arg.tracks[1].instrument = 0
    /\ Unwrap(called).arg.tracks[2].instrument = 40
    /\ \A t \in 1 .. 2 :
           Unwrap(called).arg.tracks[t].notes =
               <<Note(64, 100, 4, 2), Note(60, 127, 0, 4)>>
    /\ Len(Unwrap(called).result) = 12
    /\ Occurrences(Unwrap(called).result, MidiMessage(4, NoteOn(64, 127))) = 2

----------------------------------------------------------------------------
(* Properties of the track chunk, read back as a reader of the file reads it *)

\* the index of the last byte of the variable-length quantity that starts at
\* b[i]: the first byte from i on without the bit 0x80 (0 when there is none)
RECURSIVE VarlenEnd(_, _)
VarlenEnd(b, i) ==
    IF i > Len(b) THEN 0
    ELSE IF b[i] < 128 THEN i
    ELSE VarlenEnd(b, i + 1)

\* the number of data bytes behind the status byte at b[i] (-1: unknown status)
DataBytes(b, i) ==
    CASE b[i] = 192 -> 1
      [] b[i] \in {128, 144} -> 2
      [] b[i] = 255 /\ i + 2 <= Len(b) -> 2 + b[i + 2]
      [] OTHER -> -1

\* the events of the track chunk body b from b[i] on, each with the bytes of
\* its delta time and its status and data bytes; a body that cannot be read
\* ends with an event "malformed"
RECURSIVE ReadEvents(_, _)
ReadEvents(b, i) ==
    IF i > Len(b) THEN <<>>
    ELSE LET e == VarlenEnd(b, i)
         IN  IF e = 0 \/ e + 1 > Len(b) \/ DataBytes(b, e + 1) < 0
                \/ e + 1 + DataBytes(b, e + 1) > Len(b)
             THEN <<[delta |-> <<>>, bytes |-> <<>>, malformed |-> TRUE]>>
             ELSE <<[delta |-> SubSeq(b, i, e),
                     bytes |-> SubSeq(b, e + 1, e + 1 + DataBytes(b, e + 1)),
                     malformed |-> FALSE]>>
                  \o ReadEvents(b, e + 2 + DataBytes(b, e + 1))

\* C24: the track chunk body holds, for each event of the sorted stream in
\* order, its variable-length delta time and then its status and data bytes
\* (C0 instrument; 90 pitch velocity; 80 pitch velocity), and ends with
\* exactly the four bytes 00 FF 2F 00, the last bytes of the file; for a
\* project with one note the body holds exactly one ProgramChange, one
\* NoteOn, one NoteOff and the end-of-track marker.
C24_TrackChunkBody ==
    Called("export_midi") =>
        LET p == Unwrap(called).arg
            stream == to_midi(p)
            events == ReadEvents(TrackChunkBody, 1)
            wire(type_) ==
                CASE type_.tag = "ChangeInstrument" -> <<192, type_.instrument>>
                  [] type_.tag = "NoteOn" -> <<144, type_.pitch, type_.velocity>>
                  [] type_.tag = "NoteOff" -> <<128, type_.pitch, type_.velocity>>
            with(status) == {k \in 1 .. Len(events) : events[k].bytes[1] = status}
        IN  /\ Len(events) = Len(stream) + 1
            /\ \A k \in 1 .. Len(events) : ~events[k].malformed
            /\ \A k \in 1 .. Len(stream) : events[k].bytes = wire(stream[k].type_)
            /\ events[Len(events)].delta = <<0>>
            /\ events[Len(events)].bytes = <<255, 47, 0>>
            /\ SubSeq(FileBytes, Len(FileBytes) - 3, Len(FileBytes)) = <<0, 255, 47, 0>>
            /\ Cardinality(NotePlaces(p)) = 1 =>
                   /\ Cardinality(with(192)) = 1
                   /\ Cardinality(with(144)) = 1
                   /\ Cardinality(with(128)) = 1
                   /\ Cardinality(with(255)) = 1
                   /\ Len(events) = 4

\* a project with one note (pitch 60, offset 0) was exported
C24_Witness ==
    /\ Called("export_midi")
    /\ Unwrap(called).arg.bpm = 120
    /\ Len(Unwrap(called).arg.tracks) = 1
    /\ Unwrap(called).arg.tracks[1].notes = <<Note(60, 127, 0, 4)>>
    /\ TrackChunkBody = <<0, 192, Unwrap(called).arg.tracks[1].instrument,
                          0, 144, 60, 127,
                          136, 0, 128, 60, 127,
                          0, 255, 47, 0>>


\* the messages of stream at offset, in their order in stream
AtOffset(stream, offset) ==
    LET Here(message) == message.offset = offset
    IN  SelectSeq(stream, Here)

\* C25: the event stream is sorted by non-decreasing offset and the sort is
\* stable: events of equal offset keep the order in which they were emitted
\* (track order, then note order, then ProgramChange, NoteOn, NoteOff).
C25_StableSortByOffset ==
    Called("to_midi") =>
        LET emitted == TrackMessages(Unwrap(called).arg.tracks)
            stream == Unwrap(called).result
        IN  /\ Len(stream) = Len(emitted)
            /\ \A k \in 1 .. Len(stream) - 1 : stream[k].offset <= stream[k + 1].offset
            /\ \A k \in 1 .. Len(emitted) :
                   AtOffset(stream, emitted[k].offset) = AtOffset(emitted, emitted[k].offset)

\* two tracks whose events tie at offsets 0 and 4: the first track's events
\* stay in front of the second track's, and a note's NoteOff at 4 stays in
\* front of the next note's ProgramChange at 4
C25_Witness ==
    /\ Called("to_midi")
    /\ Len(Unwrap(called).result) = 12
    /\ SubSeq(Unwrap(called).result, 1, 7) =
           << MidiMessage(0, ChangeInstrument(0)), MidiMessage(0, NoteOn(60, 127)),
              MidiMessage(0, ChangeInstrument(40)), MidiMessage(0, NoteOn(60, 127)),
              MidiMessage(4, NoteOff(60, 127)), MidiMessage(4, ChangeInstrument(0)),
              MidiMessage(4, NoteOn(64, 127)) >>


\* the number a reader gets from a variable-length quantity: seven bits a byte,
\* most significant byte first
RECURSIVE from_varlen(_)
from_varlen(b) ==
    IF b = <<>> THEN 0
    ELSE from_varlen(SubSeq(b, 1, Len(b) - 1)) * 128 + (b[Len(b)] % 128)

RECURSIVE Pow128(_)
Pow128(n) == IF n = 0 THEN 1 ELSE 128 * Pow128(n - 1)

\* C26: to_varlen(v) is the shortest big-endian base-128 encoding of v with
\* the bit 0x80 set on every byte but the last, and decoding it gives v;
\* 0 gives 00, 127 gives 7F, 128 gives 81 00, 16384 gives 81 80 00.
C26_VarlenEncoding ==
    Called("to_varlen") =>
        LET v == Unwrap(called).arg
            b == Unwrap(called).result
        IN  /\ Len(b) \in 1 .. 4
            /\ \A k \in 1 .. Len(b) - 1 : b[k] \in 128 .. 255
            /\ b[Len(b)] \in 0 .. 127
            /\ from_varlen(b) = v
            /\ Len(b) > 1 => v >= Pow128(Len(b) - 1)
            /\ v = 0 => b = <<0>>
            /\ v = 127 => b = <<127>>
            /\ v = 128 => b = <<129, 0>>
            /\ v = 16384 => b = <<129, 128, 0>>

\* the first value of three bytes was encoded
C26_Witness ==
    /\ Called("to_varlen")
    /\ Unwrap(called).arg = 16384
    /\ Unwrap(called).result = <<129, 128, 0>>


\* C27: the delta time written in front of an event is
\* round((offset - previous offset) * delta_multiplier), with delta_multiplier
\* = round(480 / bpm * 1024) and the previous offset 0 for the first event:
\* rounded to the nearest tick, not truncated, for every bpm and every pair
\* of offsets on the 1/16 grid.
C27_DeltaRoundedToNearestTick ==
    Called("export_midi") =>
        LET p == Unwrap(called).arg
            stream == to_midi(p)
            events == ReadEvents(TrackChunkBody, 1)
            multiplier == Round(480 * 1024, p.bpm)
            previous(k) == IF k = 1 THEN 0 ELSE stream[k - 1].offset
        IN  \A k \in 1 .. Len(stream) :
                from_varlen(events[k].delta) =
                    Round((stream[k].offset - previous(k)) * multiplier, MIN_DIVISION)

----------------------------------------------------------------------------
(* Properties of the pointer arithmetic *)

\* C28: snap(x, precision) is the multiple of precision nearest to x, the
\* upper one when x is half a precision or more above the lower one, for
\* every x that pointer arithmetic can produce, negative x included;
\* snap(0.09, 0.0625) = 0.0625 and snap(0.10, 0.0625) = 0.125.
C28_SnapToNearestMultiple ==
    Called("snap") =>
        LET x == Unwrap(called).arg[1]
            precision == Unwrap(called).arg[2]
            snapped == Unwrap(called).result
        IN  /\ \E k \in -(MaxOutside + 1) .. (MaxSnapX + 1) : snapped = k * precision
            /\ 2 * (x - snapped) < precision
            /\ 2 * (snapped - x) <= precision
            /\ Unwrap(called).arg = <<900, 625>> => snapped = 625
            /\ Unwrap(called).arg = <<1000, 625>> => snapped = 1250


PitchCalled ==
    \/ Called("mouse_y_to_pitch")
    \/ Called("created_pitch")
    \/ Called("dragged_pitch")

\* C29 as stated: for every pointer y, the pitch given to a note being
\* created or dragged is clamp(round(127 - y / rowHeight), 0, 127), with
\* rowHeight = 30 px.
C29_PitchRoundsToNearest ==
    PitchCalled =>
        Unwrap(called).result =
            Clamp(Round(127 * 30 - Unwrap(called).arg, 30), 0, 127)

\* the pitch whose row (screen_y .. screen_y + screen_height) holds mouse_y
PitchOfRowAt(mouse_y) ==
    CHOOSE pitch \in 0 .. 127 :
        LET top == (127 - pitch) * 30
        IN  top <= mouse_y /\ mouse_y < top + 30

\* C29, amended: for every pointer y, the pitch given to a note being created
\* or dragged is clamp(ceil(127 - y / rowHeight), 0, 127), with rowHeight =
\* 30 px: the pitch of the row under the pointer, 127 above the rows and 0
\* below them.
C29_PitchOfRowUnderPointer ==
    PitchCalled =>
        LET mouse_y == Unwrap(called).arg
            pitch == Unwrap(called).result
        IN  /\ pitch = Clamp(Ceil(127 * 30 - mouse_y, 30), 0, 127)
            /\ mouse_y < 0 => pitch = 127
            /\ mouse_y \in 0 .. (128 * 30 - 1) => pitch = PitchOfRowAt(mouse_y)
            /\ mouse_y >= 128 * 30 => pitch = 0

\* a note dragged to y = 20, in the lower half of the top row, gets the pitch
\* of that row
C29_Witness ==
    /\ Called("dragged_pitch")
    /\ Unwrap(called).arg = 20
    /\ Unwrap(called).result = 127

----------------------------------------------------------------------------
(* Properties of playback *)

\* the notes of the played project at or after the play offset, in track order
NotesFromPlayOffset ==
    LET FromOffset(note) == note.offset >= Unwrap(called).arg.play_offset
    IN  SelectSeq(all_notes(Unwrap(called).arg.project.tracks), FromOffset)

\* timers holds exactly one timer of this kind for each value in keys, and
\* that timer holds the notes whose key it is, in order (keys[k] is the key of
\* notes[k])
OneGroupEach(timers, kind, notes, keys) ==
    LET group == {timer \in timers : timer.kind = kind}
        values == {keys[k] : k \in 1 .. Len(notes)}
        indices(value) == {k \in 1 .. Len(notes) : keys[k] = value}
    IN  /\ Cardinality(group) = Cardinality(values)
        /\ \A value \in values :
               \E timer \in group :
                   /\ Len(timer.notes) = Cardinality(indices(value))
                   /\ \A n \in 1 .. Len(timer.notes) :
                          \E k \in indices(value) :
                              /\ timer.notes[n] = notes[k]
                              /\ Cardinality({j \in indices(value) : j < k}) = n - 1

\* C30: a play request made while timers of a running playback are
\* outstanding cancels all of them and schedules nothing new; a play request
\* made while nothing is playing and an output is selected schedules one
\* note-on timer for each start and one note-off timer for each end of the
\* notes at or after the play offset.
C30_PlaybackToggle ==
    Called("play") =>
        LET before == Unwrap(called).arg.playing_notes
            after == Unwrap(called).result
            notes == NotesFromPlayOffset
            starts == [k \in 1 .. Len(notes) |-> notes[k].offset]
            ends == [k \in 1 .. Len(notes) |-> notes[k].offset + notes[k].length]
        IN  /\ Outstanding(before) # {} => after = {}
            /\ Outstanding(before) = {} /\ IsSome(Unwrap(called).arg.selected_output) =>
                   /\ Outstanding(after) = after
                   /\ OneGroupEach(after, "on", notes, starts)
                   /\ OneGroupEach(after, "off", notes, ends)


\* C31: playback stops by itself when progress reaches the end of the last
\* note: once the last scheduled note-off has fired (no timer is outstanding)
\* the player is not in the playing state (playing_notes is empty), so the
\* next play request starts a new run and does not act as a stop.
C31_StopsAfterLastNoteOff ==
    Outstanding(playing_notes) = {} => playing_notes = {}


\* the timers the last play request pushed
ScheduledByLastPlay ==
    Unwrap(called).result \ Unwrap(called).arg.playing_notes

\* C32: timers of two playback runs are never outstanding together: whatever
\* the order of play requests and timer firings, every outstanding timer is
\* one that the latest play request scheduled, and that request scheduled
\* timers only when it found none of an earlier run (they were cancelled by
\* the request before it or the run had been stopped).
C32_OneRunOutstanding ==
    /\ ~Called("play") => playing_notes = {}
    /\ Called("play") =>
           /\ Outstanding(playing_notes) \subseteq ScheduledByLastPlay
           /\ ScheduledByLastPlay # {} =>
                  Outstanding(Unwrap(called).arg.playing_notes) = {}

\* a run has played to the end of the project and a second run is scheduled,
\* none of its timers fired yet
C32_Witness ==
    /\ Called("play")
    /\ play_progress = TotalLength(project)
    /\ play_progress > 0
    /\ playing_notes # {}
    /\ Outstanding(playing_notes) = playing_notes


\* the model after perform(c); undo(); redo()
AfterPerformUndoRedo(m, c) == redo_last(undo_last(perform_action(m, c)))

\* C33: for every command c that is valid in a state whose selection is
\* absent or in range, perform(c); undo(); redo() ends in the same project,
\* the same selection and the same undo stack as perform(c) alone, and in the
\* redo stack the state had before the perform.
C33_PerformUndoRedo ==
    ValidState(Self) =>
        \A c \in EngineCommands(Self) :
            LET performed == perform_action(Self, c)
                redone == AfterPerformUndoRedo(Self, c)
            IN  /\ ~performed.panicked
                /\ ~redone.panicked
                /\ redone.project = performed.project
                /\ redone.selected_track_index = performed.selected_track_index
                /\ redone.undo_stack = performed.undo_stack
                /\ redone.redo_stack = redo_stack


\* C34: while a note operation is active its note index refers to an existing
\* note of the selected track, whatever the order of mouse down, mouse move,
\* mouse up, SelectTrack, Undo and Redo, and the handlers of mouse move and
\* mouse up never index a note or a track out of range.
C34_NoteOperationIndexInRange ==
    /\ ~panicked /\ IsSome(note_operation) =>
           /\ IsSome(selected_track_index)
           /\ NoteExists(Self, Unwrap(selected_track_index),
                         Unwrap(note_operation).note_index)
    /\ panicked => last.msg \notin {"PianoRollMouseMove", "PianoRollMouseUp"}

----------------------------------------------------------------------------
(* Properties of a whole gesture on the piano roll *)

\* a gesture has at most this many mouse moves
MaxGestureMoves == 1

\* where the button goes down and where the pointer is moved to
GestureDowns == MouseXs \X {15}
GestureMoves == SeqsUpTo(MouseXs \X {15, 45}, MaxGestureMoves)

\* the model after mouse moves with the left button held
RECURSIVE AfterMoves(_, _)
AfterMoves(m, moves) ==
    IF moves = <<>> THEN m
    ELSE AfterMoves(UpdatePianoRollMouseMove(m, Head(moves)[1], Head(moves)[2], 1).m,
                    Tail(moves))

\* the model after mouse down at down, the moves and mouse up, nothing between
Gesture(m, down, moves) ==
    UpdatePianoRollMouseUp(
        AfterMoves(UpdatePianoRollMouseDown(m, down[1], down[2], 1).m, moves)).m

----------------------------------------------------------------------------
(* Properties of the messages that act on the selected track *)

\* DeleteSelectedTrack was handled in this step while a track was selected
DeletesSelected ==
    /\ ~panicked /\ pending = <<>>
    /\ IsSome(selected_track_index)
    /\ last'.msg = "DeleteSelectedTrack"
    /\ <<undo_stack, panicked>>' # <<undo_stack, panicked>>

\* the message DeleteSelectedTrack sent is handled in this step
FollowsDelete ==
    /\ ~panicked /\ pending # <<>>
    /\ last.msg = "DeleteSelectedTrack"
    /\ pending' = Tail(pending)

\* C36: DeleteSelectedTrack with track i selected performs DeleteTrack(i);
\* once the message it sent is handled, the selection is max(i - 1, 0) if a
\* track remains and absent if none does, and it is in range.  With no track
\* selected, DeleteSelectedTrack, RenameSelectedTrack and
\* SetSelectedTrackInstrument change nothing and push nothing.
C36_DeleteSelectedTrack ==
    /\ [][DeletesSelected =>
              LET i == Unwrap(selected_track_index)
              IN  /\ ~panicked'
                  /\ last'.call = "perform_action"
                  /\ last'.action = Some(DeleteTrack(i))
                  /\ Len(project'.tracks) = Len(project.tracks) - 1
                  /\ undo_stack' = Append(undo_stack, Unwrap(last'.inverse))
                  /\ Len(pending') = 1
          ]_vars
    /\ [][FollowsDelete =>
              LET i == Unwrap(last.action).index
              IN  /\ selected_track_index' =
                         IF Len(project.tracks) >= 1
                         THEN Some(IF i - 1 > 0 THEN i - 1 ELSE 0)
                         ELSE None
                  /\ IsSome(selected_track_index') =>
                         Unwrap(selected_track_index') < Len(project'.tracks)
                  /\ project' = project
                  /\ undo_stack' = undo_stack /\ redo_stack' = redo_stack
                  /\ ~panicked'
          ]_vars
    /\ [](selected_track_index = None =>
              /\ UpdateDeleteSelectedTrack(Self).m = Self
              /\ UpdateRenameSelectedTrack(Self, "Lead").m = Self
              /\ \A instrument \in Instruments :
                     UpdateSetSelectedTrackInstrument(Self, instrument).m = Self)

\* the last of three tracks was selected and deleted, and the message that
\* followed has selected the second
C36_Witness ==
    /\ ~panicked /\ pending = <<>>
    /\ last.msg = "SelectTrack"
    /\ selected_track_index = Some(1)
    /\ Len(project.tracks) = 2
    /\ undo_stack # <<>>
    /\ VecLast(undo_stack).type = "CreateTrack"
    /\ VecLast(undo_stack).track.name = "Track 3"

----------------------------------------------------------------------------
(* Properties of the sizes of the two stacks *)

\* the entries on the two stacks together
StackSum == Len(undo_stack) + Len(redo_stack)

\* the step just taken was this call of the engine
Calls(call) == vars' # vars /\ last'.call = call

\* C37: stack size accounting.  Every perform makes the undo stack one entry
\* longer and leaves the length of the redo stack alone; every undo or redo
\* that finds an entry moves exactly one entry from one stack to the other;
\* so the sum of the two lengths grows by one with each perform call, is
\* left alone by every other call, and never decreases.
C37_StackSizeAccounting ==
    [][/\ Calls("perform_action") =>
              /\ Len(undo_stack') = Len(undo_stack) + 1
              /\ Len(redo_stack') = Len(redo_stack)
       /\ Calls("undo_last") /\ undo_stack # <<>> /\ ~panicked' =>
              /\ Len(undo_stack') = Len(undo_stack) - 1
              /\ Len(redo_stack') = Len(redo_stack) + 1
       /\ Calls("redo_last") /\ redo_stack # <<>> /\ ~panicked' =>
              /\ Len(redo_stack') = Len(redo_stack) - 1
              /\ Len(undo_stack') = Len(undo_stack) + 1
       /\ StackSum' = IF Calls("perform_action") THEN StackSum + 1 ELSE StackSum
       /\ StackSum' >= StackSum
      ]_vars


\* the places of stream where a ChangeInstrument with this instrument is
\* followed at once by the NoteOn of this pitch, both at this offset
PairsAt(stream, instrument, pitch, offset) ==
    {k \in 1 .. Len(stream) - 1 :
        /\ stream[k] = MidiMessage(offset, ChangeInstrument(instrument))
        /\ stream[k + 1] = MidiMessage(offset, NoteOn(pitch, full_velocity))}

\* the notes of project p on a track with this instrument that have this
\* pitch and offset
NotesLike(p, instrument, pitch, offset) ==
    {place \in NotePlaces(p) :
        /\ p.tracks[place[1]].instrument = instrument
        /\ p.tracks[place[1]].notes[place[2]].pitch = pitch
        /\ p.tracks[place[1]].notes[place[2]].offset = offset}

\* C38: in the sorted message stream of any project every NoteOn comes
\* directly behind the ProgramChange of its own note, which carries the
\* instrument of the note's track, with no event of another note between the
\* two, also when notes of different tracks share an offset or the NoteOff of
\* another note falls on it.
C38_NoteOnFollowsItsProgramChange ==
    Called("to_midi") =>
        LET p == Unwrap(called).arg
            stream == Unwrap(called).result
        IN  /\ \A k \in 1 .. Len(stream) :
                   stream[k].type_.tag = "NoteOn" =>
                       /\ k > 1
                       /\ stream[k - 1].type_.tag = "ChangeInstrument"
                       /\ stream[k - 1].offset = stream[k].offset
            /\ \A place \in NotePlaces(p) :
                   LET track == p.tracks[place[1]]
                       note == track.notes[place[2]]
                   IN  Cardinality(PairsAt(stream, track.instrument, note.pitch,
                                           note.offset))
                           = Cardinality(NotesLike(p, track.instrument, note.pitch,
                                                   note.offset))

\* two tracks with different instruments start a note at offset 0, and the
\* first track's second note starts at offset 4, where both first notes end
C38_Witness ==
    /\ Called("to_midi")
    /\ Unwrap(called).arg.tracks =
           << Track("Track 1", <<Note(60, 127, 0, 4), Note(64, 100, 4, 2)>>, 0),
              Track("Track 1", <<Note(60, 127, 0, 4)>>, 40) >>
    /\ Len(Unwrap(called).result) = 9
    /\ Unwrap(called).result[5].type_.tag = "NoteOff"
    /\ Unwrap(called).result[6] = MidiMessage(4, ChangeInstrument(0))
    /\ Unwrap(called).result[7] = MidiMessage(4, NoteOn(64, full_velocity))
    /\ Unwrap(called).result[8].type_.tag = "NoteOff"

----------------------------------------------------------------------------
(* Properties of the two pitch formulas of the piano roll *)

\* C39: for every y inside the piano-roll area the pitch given to a note
\* created at y (clamp, then ceil, of 127 - y / 30) and the pitch given to a
\* note dragged to y (127 - clamp(round(y / 30 - 0.5), 0, 127)) are equal, and
\* both are the pitch of the row under the pointer, 127 - floor(y / 30), so
\* that the row the note is drawn in contains the pointer.
C39_CreatedAndDraggedPitchAgree ==
    (/\ Called("created_pitch") \/ Called("dragged_pitch")
     /\ Unwrap(called).arg >= 0
     /\ Unwrap(called).arg < 128 * NOTE_RECT_HEIGHT) =>
        LET mouse_y == Unwrap(called).arg
            pitch == Unwrap(called).result
            top == screen_y([pitch |-> pitch])
        IN  /\ pitch = CreatedPitch(mouse_y)
            /\ pitch = DraggedPitch(mouse_y)
            /\ pitch = 127 - (mouse_y \div NOTE_RECT_HEIGHT)
            /\ top <= mouse_y /\ mouse_y < top + NOTE_RECT_HEIGHT

\* a note was dragged to y = 30, the first pixel of the second row, where
\* y / 30 - 0.5 is exactly one half and rounds up
C39_Witness ==
    /\ Called("dragged_pitch")
    /\ Unwrap(called).arg = NOTE_RECT_HEIGHT
    /\ Unwrap(called).result = 126

====
